---- MODULE Spec2Model ----
(***************************************************************************)
(* State-machine model of the authentication / session core of the SSO     *)
(* web app: UserService, SessionManager, AuthServiceImpl and the routes.   *)
(*                                                                         *)
(* Strings are sequences of one-character strings, so that trim(), the     *)
(* e-mail pattern and the character-wise state comparison are computed.    *)
(* Time is a tick counter; a calendar day has TicksPerDay ticks.           *)
(* A request in flight is a process p with a position pc[p] and locals     *)
(* loc[p]; every `await` of the code that separates two storage accesses   *)
(* is a boundary between two actions.                                      *)
(***************************************************************************)
EXTENDS Integers, Sequences, FiniteSets, TLC

VARIABLES
  users,          \* table users: id -> row
  sessions,       \* table sessions: id -> row
  now,            \* the clock (Date.now() and SQLite's 'now')
  isInitialized,  \* AuthServiceImpl.isInitialized
  browser,        \* per browser context: req.session.{sessionId, oauthState}
  pc,             \* per process: position in the operation it runs
  loc,            \* per process: arguments and locals of that operation
  ret,            \* outcome of the call that returned last
  tally,          \* ghost: createUser calls per (provider, provider-id)
  nUid,           \* number of user ids generated so far (uuidv4)
  nSid            \* number of session ids generated so far (randomBytes)

vars == <<users, sessions, now, isInitialized, browser, pc, loc, ret, tally, nUid, nSid>>

-----------------------------------------------------------------------------
(* Bounds *)

MaxUsers == 2
MaxSessions == 2
MaxTime == 4
TicksPerDay == 3
MaxCalls == 3
MaxStateLen == 3

Procs == {1, 2}
Browsers == {1}

-----------------------------------------------------------------------------
(* Strings *)

\* the value of an optional argument / property that is not there
Absent == <<"undefined">>

IsWhitespace(c) == c = " "

RECURSIVE TrimLeft(_)
TrimLeft(s) ==
  IF s = <<>> THEN <<>>
  ELSE IF IsWhitespace(Head(s)) THEN TrimLeft(Tail(s)) ELSE s

RECURSIVE TrimRight(_)
TrimRight(s) ==
  IF s = <<>> THEN <<>>
  ELSE IF IsWhitespace(s[Len(s)]) THEN TrimRight(SubSeq(s, 1, Len(s) - 1)) ELSE s

Trim(s) == TrimRight(TrimLeft(s))

\* surrounding whitespace
Pad(s) == <<" ">> \o s \o <<" ">>

\* sanitizeInput: '' for a non-string, the trimmed string otherwise
sanitizeInput(input) == IF input = Absent THEN <<>> ELSE Trim(input)

\* JavaScript truthiness of an optional string
Truthy(s) == s # Absent /\ s # <<>>

Digits == <<"1", "2", "3", "4", "5", "6", "7", "8", "9">>

\* the n-th generated user id (uuidv4: ids never repeat)
Uuid(n) == <<"u", Digits[n]>>

\* the n-th generated session id (randomBytes(32) in hex: ids never repeat)
generateSecureSessionId(n) == <<"s", Digits[n]>>

-----------------------------------------------------------------------------
(* Dates as stored *)

SepT == 84
SepSpace == 32

\* Date.prototype.toISOString: 'YYYY-MM-DDTHH:MM:SS.sssZ'
toISOString(t) == <<t \div TicksPerDay, SepT, t % TicksPerDay>>

\* new Date(isoString)
ParseDate(str) == str[1] * TicksPerDay + str[3]

\* SQLite datetime('now'): 'YYYY-MM-DD HH:MM:SS'
SqliteNow(t) == <<t \div TicksPerDay, SepSpace, t % TicksPerDay>>

\* SQLite's comparison of two TEXT values (BINARY collation)
TextLess(a, b) ==
  \E i \in 1..Len(a) :
    /\ i <= Len(b)
    /\ a[i] < b[i]
    /\ \A j \in 1..(i - 1) : a[j] = b[j]

-----------------------------------------------------------------------------
(* Errors: the AppError shape {type, statusCode} *)

NoError == [type |-> "none", statusCode |-> 0]
Err(t, s) == [type |-> t, statusCode |-> s]

-----------------------------------------------------------------------------
(* User model *)

MICROSOFT == <<"m", "i", "c", "r", "o", "s", "o", "f", "t">>
GITHUB == <<"g", "i", "t", "h", "u", "b">>

ToLowerChar(c) ==
  CASE c = "G" -> "g"
    [] c = "H" -> "h"
    [] c = "M" -> "m"
    [] OTHER -> c

\* String.prototype.toLowerCase
toLowerCase(s) == [i \in 1..Len(s) |-> ToLowerChar(s[i])]

\* ['microsoft', 'github'].includes(provider.toLowerCase())
isValidProvider(provider) == toLowerCase(provider) \in {MICROSOFT, GITHUB}

\* /^[^\s@]+@[^\s@]+\.[^\s@]+$/
isValidEmail(email) ==
  /\ \A i \in 1..Len(email) : ~IsWhitespace(email[i])
  /\ \E i \in 2..Len(email) :
       /\ email[i] = "@"
       /\ \A j \in 1..Len(email) : email[j] = "@" => j = i
       /\ \E k \in (i + 2)..(Len(email) - 1) : email[k] = "."

\* User.validate() returns no error
UserValid(u) ==
  /\ Trim(u.username) # <<>>
  /\ u.email # <<>> /\ isValidEmail(u.email)
  /\ u.provider # <<>> /\ isValidProvider(u.provider)
  /\ Trim(u.provider_id) # <<>>

\* mutant: the provider id is stored as given
SanitizeProfile_IdAsGiven(profile) ==
  [id |-> profile.id,
   username |-> sanitizeInput(profile.username),
   email |-> sanitizeInput(profile.email),
   provider |-> profile.provider]

\* the profile as createUser sanitizes it (provider is taken as given)
SanitizeProfile(profile) ==
  [id |-> sanitizeInput(profile.id),
   username |-> sanitizeInput(profile.username),
   email |-> sanitizeInput(profile.email),
   provider |-> profile.provider]

\* User.fromProfile followed by toDatabaseRow
UserRow(id, profile, t) ==
  [id |-> id,
   username |-> profile.username,
   email |-> profile.email,
   provider |-> profile.provider,
   provider_id |-> profile.id,
   created_at |-> toISOString(t),
   updated_at |-> toISOString(t)]

\* no row: what findByProviderId and findById return as null
NoUser ==
  [id |-> Absent, username |-> Absent, email |-> Absent, provider |-> Absent,
   provider_id |-> Absent, created_at |-> toISOString(0),
   updated_at |-> toISOString(0)]

-----------------------------------------------------------------------------
(* Table users: PRIMARY KEY id, UNIQUE(provider, provider_id) *)

\* SELECT * FROM users WHERE provider_id = ? AND provider = ?
SelectUserByProvider(providerId, provider) ==
  {id \in DOMAIN users :
     users[id].provider_id = providerId /\ users[id].provider = provider}

\* mutant: the table has no UNIQUE(provider, provider_id) constraint
UniqueViolated_NoConstraint(row) == FALSE

\* the UNIQUE(provider, provider_id) constraint would reject this row
UniqueViolated(row) == SelectUserByProvider(row.provider_id, row.provider) # {}

\* the table after INSERT INTO users
InsertUser(row) ==
  [id \in DOMAIN users \cup {row.id} |-> IF id = row.id THEN row ELSE users[id]]

\* mutant: the provider is compared with the two names as given
FindByProviderIdError_Exact(providerId, provider) ==
  IF sanitizeInput(providerId) = <<>> \/ sanitizeInput(provider) = <<>>
    THEN Err("VALIDATION_ERROR", 400)
  ELSE IF sanitizeInput(provider) \notin {MICROSOFT, GITHUB}
    THEN Err("VALIDATION_ERROR", 400)
  ELSE NoError

\* findByProviderId: the error it throws, if any
FindByProviderIdError(providerId, provider) ==
  IF sanitizeInput(providerId) = <<>> \/ sanitizeInput(provider) = <<>>
    THEN Err("VALIDATION_ERROR", 400)
  ELSE IF ~isValidProvider(sanitizeInput(provider))
    THEN Err("VALIDATION_ERROR", 400)
  ELSE NoError

\* findByProviderId: the ids of the matching rows (none: null)
FindByProviderId(providerId, provider) ==
  SelectUserByProvider(sanitizeInput(providerId), sanitizeInput(provider))

-----------------------------------------------------------------------------
(* UserService.createUser: up to the await of findByProviderId, then INSERT *)

Pair(profile) == <<profile.provider, sanitizeInput(profile.id)>>

Idle == [op |-> "idle"]
NoRet == [op |-> "none"]

Bump(pair, field) ==
  [tally EXCEPT ![pair] = [@ EXCEPT ![field] = @ + 1]]

\* the number of createUser calls made so far
CallsMade == LET S == DOMAIN tally IN
  LET RECURSIVE Sum(_)
      Sum(T) == IF T = {} THEN 0
                ELSE LET x == CHOOSE y \in T : TRUE IN tally[x].calls + Sum(T \ {x})
  IN Sum(S)

\* the profiles the callers pass: one pair with and without surrounding
\* whitespace, the same id at the other provider and under another spelling of
\* the provider, and profiles that fail validation
Prof(id, username, email, provider) ==
  [id |-> id, username |-> username, email |-> email, provider |-> provider]

GoodEmail == <<"a", "@", "b", ".", "c">>

Profiles ==
  {Prof(<<"g", "1">>, <<"a", "l">>, GoodEmail, GITHUB),
   Prof(<<" ", "g", "1", " ">>, <<"b", "o", " ">>, GoodEmail, GITHUB),
   Prof(<<"g", "1">>, <<"a", "l">>, GoodEmail, MICROSOFT),
   Prof(<<"g", "1">>, <<"a", "l">>, GoodEmail, <<"G", "i", "t", "H", "u", "b">>),
   Prof(<<"g", "1">>, <<"a", "l">>, <<"a", "@", "b">>, GITHUB),
   Prof(<<" ">>, <<"a", "l">>, GoodEmail, GITHUB),
   Prof(<<"g", "1">>, <<" ">>, GoodEmail, <<"g", "i", "t">>)}

Pairs == {Pair(pr) : pr \in Profiles}

\* a generated user id is left for every createUser that reached its INSERT
UserIdsLeft ==
  nUid + Cardinality({q \in Procs : pc[q] \in {"createUserInsert", "cbCreateInsert"}})
    < MaxUsers

CreateUserRet(profile, valid, error, id, at) ==
  [op |-> "createUser", profile |-> profile, valid |-> valid, error |-> error,
   id |-> id, at |-> at]

\* createUser, first part: sanitize, validate, look the pair up
CreateUserCheck(p, profile) ==
  /\ pc[p] = "idle" /\ ret = NoRet
  /\ CallsMade < MaxCalls
  /\ LET sp == SanitizeProfile(profile)
         user == UserRow(Absent, sp, now)
     IN IF ~UserValid(user)
          THEN /\ ret' = 
                     CreateUserRet(profile, FALSE, Err("VALIDATION_ERROR", 400), Absent, "check")
               /\ UNCHANGED <<pc, loc, tally>>
        ELSE IF FindByProviderIdError(sp.id, sp.provider) # NoError
          THEN /\ ret' = 
                     CreateUserRet(profile, TRUE, FindByProviderIdError(sp.id, sp.provider), Absent, "check")
               /\ UNCHANGED <<pc, loc, tally>>
        ELSE IF FindByProviderId(sp.id, sp.provider) # {}
          THEN /\ ret' = 
                     CreateUserRet(profile, TRUE, Err("VALIDATION_ERROR", 409), Absent, "check")
               /\ tally' = [tally EXCEPT ![Pair(profile)] =
                     [@ EXCEPT !.calls = @ + 1, !.conflict = @ + 1]]
               /\ UNCHANGED <<pc, loc>>
        ELSE /\ UserIdsLeft
             /\ pc' = [pc EXCEPT ![p] = "createUserInsert"]
             /\ loc' = [loc EXCEPT ![p] = [op |-> "createUser", profile |-> profile]]
             /\ UNCHANGED ret
             /\ tally' = Bump(Pair(profile), "calls")
  /\ UNCHANGED <<users, sessions, now, isInitialized, browser, nUid, nSid>>

\* createUser, second part: INSERT INTO users; a UNIQUE failure becomes 409
CreateUserInsert(p) ==
  /\ pc[p] = "createUserInsert" /\ ret = NoRet
  /\ LET profile == loc[p].profile
         sp == SanitizeProfile(profile)
         row == UserRow(Uuid(nUid + 1), sp, now)
     IN IF UniqueViolated(row)
          THEN /\ ret' = 
                     CreateUserRet(profile, TRUE, Err("VALIDATION_ERROR", 409), Absent, "insert")
               /\ tally' = Bump(Pair(profile), "conflict")
               /\ UNCHANGED <<users, nUid>>
        ELSE /\ users' = InsertUser(row)
             /\ nUid' = nUid + 1
             /\ ret' = 
                   CreateUserRet(profile, TRUE, NoError, row.id, "insert")
             /\ tally' = Bump(Pair(profile), "ok")
  /\ pc' = [pc EXCEPT ![p] = "idle"]
  /\ loc' = [loc EXCEPT ![p] = Idle]
  /\ UNCHANGED <<sessions, now, isInitialized, browser, nSid>>

-----------------------------------------------------------------------------
(* UserService.findByProviderId, called directly (it has no await) *)

FindUser(providerId, provider) ==
  /\ ret = NoRet
  /\ ret' = [op |-> "findByProviderId",
             providerId |-> providerId, provider |-> provider,
             error |-> FindByProviderIdError(providerId, provider),
             found |-> IF FindByProviderIdError(providerId, provider) = NoError
                         THEN FindByProviderId(providerId, provider)
                       ELSE {}]
  /\ UNCHANGED <<users, sessions, now, isInitialized, browser, pc, loc, tally,
                 nUid, nSid>>

-----------------------------------------------------------------------------
(* UserService.findById / deleteUser *)

\* SELECT * FROM users WHERE id = ?  (findById: null for an empty id)
FindById(userId) ==
  IF sanitizeInput(userId) = <<>> THEN {}
  ELSE {id \in DOMAIN users : id = sanitizeInput(userId)}

\* mutant: the foreign key is not enforced, the user's sessions stay
DeleteUserCascade_NoCascade(userId) == sessions

\* DELETE FROM users WHERE id = ?, with ON DELETE CASCADE on sessions.user_id
DeleteUserCascade(userId) ==
  [id \in {x \in DOMAIN sessions : sessions[x].user_id # userId} |-> sessions[id]]

\* deleteUser: true when a row was removed
DeleteUser(userId) ==
  /\ ret = NoRet
  /\ IF sanitizeInput(userId) = <<>>
       THEN /\ ret' = [op |-> "deleteUser", error |-> Err("VALIDATION_ERROR", 400),
                       deleted |-> FALSE]
            /\ UNCHANGED <<users, sessions>>
     ELSE /\ users' = [id \in DOMAIN users \ {sanitizeInput(userId)} |-> users[id]]
          /\ sessions' = DeleteUserCascade(sanitizeInput(userId))
          /\ ret' = [op |-> "deleteUser", error |-> NoError,
                     deleted |-> sanitizeInput(userId) \in DOMAIN users]
  /\ UNCHANGED <<now, isInitialized, browser, pc, loc, tally, nUid, nSid>>

-----------------------------------------------------------------------------
(* UserService.updateUser: up to the await of findById, then UPDATE *)

\* a Partial<UserProfile>: a property that is not given is Absent
PartialProfiles ==
  {Prof(Absent, <<"b", "o">>, Absent, Absent),
   Prof(Absent, <<" ">>, Absent, Absent),
   Prof(Absent, Absent, Absent, MICROSOFT),
   Prof(<<"g", "2">>, Absent, Absent, Absent),
   Prof(<<"g", "2">>, Absent, GoodEmail, MICROSOFT)}

\* mutant: updatedAt is left as it was
UserUpdate_NoBump(existingUser, profile, t) ==
  [existingUser EXCEPT
     !.username = IF profile.username # Absent THEN sanitizeInput(profile.username) ELSE @,
     !.email = IF profile.email # Absent THEN sanitizeInput(profile.email) ELSE @,
     !.provider = IF profile.provider # Absent THEN sanitizeInput(profile.provider) ELSE @,
     !.provider_id = IF profile.id # Absent THEN sanitizeInput(profile.id) ELSE @]

\* the properties updateUser copies when they are given, sanitized, and
\* User.update, which overwrites what it is given and sets updatedAt
UserUpdate(existingUser, profile, t) ==
  [existingUser EXCEPT
     !.username = IF profile.username # Absent THEN sanitizeInput(profile.username) ELSE @,
     !.email = IF profile.email # Absent THEN sanitizeInput(profile.email) ELSE @,
     !.provider = IF profile.provider # Absent THEN sanitizeInput(profile.provider) ELSE @,
     !.provider_id = IF profile.id # Absent THEN sanitizeInput(profile.id) ELSE @,
     !.updated_at = toISOString(t)]

\* the UNIQUE(provider, provider_id) constraint would reject this UPDATE
UniqueViolatedByUpdate(row) ==
  SelectUserByProvider(row.provider_id, row.provider) \ {row.id} # {}

\* what an updateUser call did: the row it read, the table it left
UpdateUserRet(error, emptyInput, profile, before, table) ==
  [op |-> "updateUser", error |-> error, emptyInput |-> emptyInput,
   profile |-> profile, before |-> before,
   after |-> IF before.id \in DOMAIN table THEN table[before.id] ELSE NoUser,
   unchanged |-> table = users,
   othersKept |-> \A id \in DOMAIN users \ {before.id} :
                    id \in DOMAIN table /\ table[id] = users[id]]

\* updateUser, first part: sanitize the id and find the user
UpdateUserFind(p, userId, profile) ==
  /\ pc[p] = "idle" /\ ret = NoRet
  /\ LET sanitizedUserId == sanitizeInput(userId)
     IN IF sanitizedUserId = <<>>
          THEN /\ ret' = UpdateUserRet(Err("VALIDATION_ERROR", 400), TRUE, profile,
                                       NoUser, users)
               /\ UNCHANGED <<pc, loc>>
        ELSE IF FindById(sanitizedUserId) = {}
          THEN /\ ret' = UpdateUserRet(Err("USER_NOT_FOUND", 404), FALSE, profile,
                                       NoUser, users)
               /\ UNCHANGED <<pc, loc>>
        ELSE /\ pc' = [pc EXCEPT ![p] = "updateUserWrite"]
             /\ loc' = [loc EXCEPT ![p] =
                   [op |-> "updateUser", existingUser |-> users[sanitizedUserId],
                    profile |-> profile]]
             /\ UNCHANGED ret
  /\ UNCHANGED <<users, sessions, now, isInitialized, browser, tally, nUid, nSid>>

\* updateUser, second part: update and validate the user, UPDATE users SET
\* username, email, provider, provider_id, updated_at WHERE id = ?; a failing
\* statement and an UPDATE of no row are DATABASE_ERRORs
UpdateUserWrite(p) ==
  /\ pc[p] = "updateUserWrite" /\ ret = NoRet
  /\ LET existingUser == loc[p].existingUser
         profile == loc[p].profile
         row == UserUpdate(existingUser, profile, now)
     IN IF ~UserValid(row)
          THEN /\ ret' = UpdateUserRet(Err("VALIDATION_ERROR", 400), FALSE, profile,
                                       existingUser, users)
               /\ UNCHANGED users
        ELSE IF UniqueViolatedByUpdate(row) \/ row.id \notin DOMAIN users
          THEN /\ ret' = UpdateUserRet(Err("DATABASE_ERROR", 500), FALSE, profile,
                                       existingUser, users)
               /\ UNCHANGED users
        ELSE /\ users' = [users EXCEPT ![row.id] = row]
             /\ ret' = UpdateUserRet(NoError, FALSE, profile, existingUser,
                                     [users EXCEPT ![row.id] = row])
  /\ pc' = [pc EXCEPT ![p] = "idle"]
  /\ loc' = [loc EXCEPT ![p] = Idle]
  /\ UNCHANGED <<sessions, now, isInitialized, browser, tally, nUid, nSid>>

-----------------------------------------------------------------------------
(* Session model *)

DEFAULT_DURATION_MS == TicksPerDay

\* an optional duration: <<>> when the argument is omitted, <<d>> otherwise;
\* durationMs || DEFAULT: the default for an omitted or zero duration
DurationOrDefault(durationMs) ==
  IF durationMs = <<>> \/ durationMs[1] = 0 THEN DEFAULT_DURATION_MS
  ELSE durationMs[1]

\* new Date(Date.now() + (durationMs || DEFAULT)): a Date keeps whole
\* milliseconds, the fraction of the sum is dropped; <<n, f>> is the duration
\* of n milliseconds and f tenths
DateAfter(t, durationMs) ==
  IF Len(durationMs) = 2 /\ durationMs[2] # 0
    THEN (10 * (t + durationMs[1]) + durationMs[2]) \div 10
  ELSE t + DurationOrDefault(IF durationMs = <<>> THEN <<>> ELSE <<durationMs[1]>>)

NoSession == [id |-> Absent, userId |-> Absent, createdAt |-> 0, expiresAt |-> 0]

\* Session.fromDatabaseRow
fromDatabaseRow(row) ==
  [id |-> row.id, userId |-> row.user_id,
   createdAt |-> ParseDate(row.created_at), expiresAt |-> ParseDate(row.expires_at)]

\* Session.toDatabaseRow
toDatabaseRow(session) ==
  [id |-> session.id, user_id |-> session.userId,
   created_at |-> toISOString(session.createdAt),
   expires_at |-> toISOString(session.expiresAt)]

\* mutant: a session counts as expired only a tick after its expiry passed
isExpired_Late(session, t) == t > session.expiresAt + 1

\* Session.isExpired: new Date() > this.expiresAt
isExpired(session, t) == t > session.expiresAt

\* Session.isValid
isValid(session, t) == ~isExpired(session, t) /\ Trim(session.userId) # <<>>

\* Session.validate() returns no error
SessionValid(session, t) ==
  /\ session.userId # <<>> /\ Trim(session.userId) # <<>>
  /\ ~isExpired(session, t)
  /\ ~(session.createdAt > session.expiresAt)

-----------------------------------------------------------------------------
(* Table sessions: PRIMARY KEY id, FOREIGN KEY user_id REFERENCES users(id) *)

\* SELECT * FROM sessions WHERE id = ?
SelectSession(id) == {x \in DOMAIN sessions : x = id}

\* the table after DELETE FROM sessions WHERE id = ?
DeleteSession(id) == [x \in DOMAIN sessions \ {id} |-> sessions[x]]

\* the FOREIGN KEY constraint rejects this row
ForeignKeyViolated(row) == row.user_id \notin DOMAIN users

\* mutant: a user has one session, the new row replaces the user's others
InsertSession_SinglePerUser(row) ==
  [x \in {y \in DOMAIN sessions : sessions[y].user_id # row.user_id} \cup {row.id} |->
     IF x = row.id THEN row ELSE sessions[x]]

\* the table after INSERT INTO sessions
InsertSession(row) ==
  [x \in DOMAIN sessions \cup {row.id} |-> IF x = row.id THEN row ELSE sessions[x]]

\* mutant: the sweep matches on the creation time
ExpiredBySql_ByCreation(t) ==
  {x \in DOMAIN sessions : ParseDate(sessions[x].created_at) < t}

\* the rows that match  expires_at < datetime('now')
ExpiredBySql(t) ==
  {x \in DOMAIN sessions : TextLess(sessions[x].expires_at, SqliteNow(t))}

\* the session ids generated so far that have no row
Gone == {generateSecureSessionId(n) : n \in 1..nSid} \ DOMAIN sessions

-----------------------------------------------------------------------------
(* SessionManager *)

\* a generated session id is left for every create that reached its INSERT
SessionIdsLeft ==
  nSid + Cardinality({q \in Procs :
            pc[q] \in {"sessionInsert", "cbSessionInsert", "authSessionInsert"}})
    < MaxSessions

\* userId: the argument; userSeen: a user with the trimmed id existed when the
\* call was made; table: the sessions table the call leaves
CreateRet(userId, error, session, userSeen, table) ==
  [op |-> "create", error |-> error, created |-> session # NoSession,
   emptyInput |-> sanitizeInput(userId) = <<>>, userSeen |-> userSeen,
   unchanged |-> table = sessions,
   others |-> Cardinality(DOMAIN sessions)]

\* mutant: the existence check is skipped
verifyUserExists_Always(userId, fail) == TRUE

\* verifyUserExists: SELECT 1 FROM users WHERE id = ?; false when the query fails
verifyUserExists(userId, fail) == ~fail /\ userId \in DOMAIN users

\* create, first part: sanitize the user id and verify that the user exists
SessionCreateCheck(p, userId, durationMs, fail) ==
  /\ pc[p] = "idle" /\ ret = NoRet
  /\ LET sanitizedUserId == sanitizeInput(userId)
         userSeen == sanitizedUserId \in DOMAIN users
     IN IF sanitizedUserId = <<>>
          THEN /\ ret' =
                     CreateRet(userId, Err("VALIDATION_ERROR", 400), NoSession,
                               FALSE, sessions)
               /\ UNCHANGED <<pc, loc>>
        ELSE IF ~verifyUserExists(sanitizedUserId, fail)
          THEN /\ ret' =
                     CreateRet(userId, Err("USER_NOT_FOUND", 404), NoSession,
                               userSeen, sessions)
               /\ UNCHANGED <<pc, loc>>
        ELSE /\ SessionIdsLeft
             /\ pc' = [pc EXCEPT ![p] = "sessionInsert"]
             /\ loc' = [loc EXCEPT ![p] =
                   [op |-> "create", userId |-> sanitizedUserId,
                    durationMs |-> durationMs, userSeen |-> userSeen]]
             /\ UNCHANGED ret
  /\ UNCHANGED <<users, sessions, now, isInitialized, browser, tally, nUid, nSid>>

\* create, second part: generate the id, build and validate the session, INSERT
SessionCreateInsert(p, fail) ==
  /\ pc[p] = "sessionInsert" /\ ret = NoRet
  /\ LET userId == loc[p].userId
         session == [id |-> generateSecureSessionId(nSid + 1),
                     userId |-> userId,
                     createdAt |-> now,
                     expiresAt |-> DateAfter(now, loc[p].durationMs)]
         row == toDatabaseRow(session)
     IN /\ nSid' = nSid + 1
        /\ IF ~SessionValid(session, now)
             THEN /\ ret' =
                        CreateRet(userId, Err("VALIDATION_ERROR", 400), NoSession,
                                  loc[p].userSeen, sessions)
                  /\ UNCHANGED sessions
           ELSE IF fail \/ ForeignKeyViolated(row)
             THEN /\ ret' =
                        CreateRet(userId, Err("DATABASE_ERROR", 500), NoSession,
                                  loc[p].userSeen, sessions)
                  /\ UNCHANGED sessions
           ELSE /\ sessions' = InsertSession(row)
                /\ ret' = CreateRet(userId, NoError, session, loc[p].userSeen,
                                    InsertSession(row))
  /\ pc' = [pc EXCEPT ![p] = "idle"]
  /\ loc' = [loc EXCEPT ![p] = Idle]
  /\ UNCHANGED <<users, now, isInitialized, browser, tally, nUid>>

\* mutant: a DELETE that affects no row is an error
DestroyError_MissingRowFails(sessionId, fail) ==
  IF sanitizeInput(sessionId) = <<>> THEN Err("VALIDATION_ERROR", 400)
  ELSE IF fail THEN Err("DATABASE_ERROR", 500)
  ELSE IF sanitizeInput(sessionId) \notin DOMAIN sessions
    THEN Err("DATABASE_ERROR", 500)
  ELSE NoError

\* destroy: the error it throws, if any (a failed DELETE is a DATABASE_ERROR)
DestroyError(sessionId, fail) ==
  IF sanitizeInput(sessionId) = <<>> THEN Err("VALIDATION_ERROR", 400)
  ELSE IF fail THEN Err("DATABASE_ERROR", 500)
  ELSE NoError

\* mutant: the DELETE of destroy removes nothing
DestroyTable_NoDelete(sessionId, fail) == sessions

\* destroy: the table it leaves
DestroyTable(sessionId, fail) ==
  IF DestroyError(sessionId, fail) # NoError THEN sessions
  ELSE DeleteSession(sanitizeInput(sessionId))

\* mutant: validate rethrows what its try block threw
ValidateCatch_Rethrow(error) == error # NoError

\* validate's catch block: whether validate itself throws
ValidateCatch(error) == FALSE

\* validate: [session, table, threw, dbError]; fail names the statement that
\* fails ("none", "select", "delete")
Validate(sessionId, fail) ==
  LET sanitizedSessionId == sanitizeInput(sessionId)
      rows == SelectSession(sanitizedSessionId)
      session == fromDatabaseRow(sessions[sanitizedSessionId])
      Out(s, tbl, error) ==
        [session |-> s, table |-> tbl, threw |-> ValidateCatch(error),
         dbError |-> error # NoError]
  IN IF sanitizedSessionId = <<>> THEN Out(NoSession, sessions, NoError)
     ELSE IF fail = "select" THEN Out(NoSession, sessions, Err("DATABASE_ERROR", 500))
     ELSE IF rows = {} THEN Out(NoSession, sessions, NoError)
     ELSE IF isExpired(session, now)
       THEN Out(NoSession, DestroyTable(session.id, fail = "delete"),
                DestroyError(session.id, fail = "delete"))
     ELSE IF ~isValid(session, now) THEN Out(NoSession, sessions, NoError)
     ELSE Out(session, sessions, NoError)

\* what is true of the id before the call, for the claims
SessionFacts(sessionId) ==
  LET sid == IF sessionId = Absent THEN <<>> ELSE Trim(sessionId)
      hadRow == sid \in DOMAIN sessions
  IN [sid |-> sid,
      emptyInput |-> sid = <<>>,
      padded |-> sid # sessionId,
      hadRow |-> hadRow,
      wasExpired |-> hadRow /\ now > ParseDate(sessions[sid].expires_at),
      hadOwner |-> hadRow /\ Trim(sessions[sid].user_id) # <<>>,
      goneBefore |-> sid \in Gone]

\* SessionManager.validate as a call of its own
SessionValidate(sessionId, fail) ==
  /\ ret = NoRet
  /\ LET out == Validate(sessionId, fail)
         f == SessionFacts(sessionId)
     IN /\ sessions' = out.table
        /\ ret' =
              [op |-> "validate",
               emptyInput |-> f.emptyInput, padded |-> f.padded, hadRow |-> f.hadRow,
               wasExpired |-> f.wasExpired, hadOwner |-> f.hadOwner,
               goneBefore |-> f.goneBefore,
               returned |-> out.session # NoSession,
               sameRow |-> f.hadRow /\ out.session = fromDatabaseRow(sessions[f.sid]),
               threw |-> out.threw, dbError |-> out.dbError,
               rowAfter |-> f.sid \in DOMAIN out.table,
               rowKept |-> /\ f.hadRow
                           /\ f.sid \in DOMAIN out.table
                           /\ out.table[f.sid] = sessions[f.sid]]
  /\ UNCHANGED <<users, now, isInitialized, browser, pc, loc, tally, nUid, nSid>>

\* SessionManager.destroy as a call of its own
SessionDestroy(sessionId, fail) ==
  /\ ret = NoRet
  /\ sessions' = DestroyTable(sessionId, fail)
  /\ LET f == SessionFacts(sessionId)
         table == DestroyTable(sessionId, fail)
     IN ret' =
          [op |-> "destroy", error |-> DestroyError(sessionId, fail),
           emptyInput |-> f.emptyInput, padded |-> f.padded, hadRow |-> f.hadRow,
           goneBefore |-> f.goneBefore,
           dbFailed |-> ~f.emptyInput /\ fail,
           rowAfter |-> f.sid \in DOMAIN table,
           othersKept |-> \A x \in DOMAIN sessions \ {f.sid} :
                            x \in DOMAIN table /\ table[x] = sessions[x],
           others |-> Cardinality(DOMAIN sessions \ {f.sid}),
           unchanged |-> table = sessions]
  /\ UNCHANGED <<users, now, isInitialized, browser, pc, loc, tally, nUid, nSid>>

\* SessionManager.cleanup: DELETE FROM sessions WHERE expires_at < datetime('now')
SessionCleanup(fail) ==
  /\ ret = NoRet
  /\ LET swept == IF fail THEN {} ELSE ExpiredBySql(now)
     IN /\ sessions' = [x \in DOMAIN sessions \ swept |-> sessions[x]]
        /\ ret' = 
              [op |-> "cleanup",
               error |-> IF fail THEN Err("DATABASE_ERROR", 500) ELSE NoError,
               deletedCount |-> Cardinality(swept),
               removed |-> Cardinality(DOMAIN sessions \ DOMAIN sessions'),
               sweptLive |-> \E x \in swept : ParseDate(sessions[x].expires_at) >= now,
               expiredLeft |-> \E x \in DOMAIN sessions' :
                                  ParseDate(sessions[x].expires_at) < now,
               liveLeft |-> \E x \in DOMAIN sessions' :
                               ParseDate(sessions[x].expires_at) >= now,
               duringCreate |-> \E q \in Procs : pc[q] = "sessionInsert"]
  /\ UNCHANGED <<users, now, isInitialized, browser, pc, loc, tally, nUid, nSid>>

\* extendSession returns; hadRow, wasExpired: what held of the id when it was
\* called; table: the sessions table the returning step leaves
ExtendRet(returned, hadRow, wasExpired, prevExpiry, newExpiry, table) ==
  [op |-> "extendSession", returned |-> returned,
   hadRow |-> hadRow, wasExpired |-> wasExpired,
   prevExpiry |-> prevExpiry, newExpiry |-> newExpiry,
   validAfter |-> returned /\ ~(now > newExpiry),
   noneWritten |-> \A x \in DOMAIN table :
                     x \in DOMAIN sessions /\ table[x] = sessions[x]]

\* extendSession, first part: validate
SessionExtendValidate(p, sessionId, durationMs, fail) ==
  /\ pc[p] = "idle" /\ ret = NoRet
  /\ LET out == Validate(sessionId, fail)
     IN /\ sessions' = out.table
        /\ IF out.session = NoSession
             THEN /\ ret' =
                        ExtendRet(FALSE, SessionFacts(sessionId).hadRow,
                                  SessionFacts(sessionId).wasExpired, 0, 0, out.table)
                  /\ UNCHANGED <<pc, loc>>
           ELSE /\ pc' = [pc EXCEPT ![p] = "extendUpdate"]
                /\ loc' = [loc EXCEPT ![p] =
                      [op |-> "extendSession", session |-> out.session,
                       durationMs |-> durationMs]]
                /\ UNCHANGED ret
  /\ UNCHANGED <<users, now, isInitialized, browser, tally, nUid, nSid>>

\* Session.extend: an omitted duration is the default one
Extend(session, durationMs, t) ==
  [session EXCEPT !.expiresAt =
     t + (IF durationMs = <<>> THEN DEFAULT_DURATION_MS ELSE durationMs[1])]

\* extendSession, second part: UPDATE sessions SET expires_at = ? WHERE id = ?
SessionExtendUpdate(p, fail) ==
  /\ pc[p] = "extendUpdate" /\ ret = NoRet
  /\ LET session == Extend(loc[p].session, loc[p].durationMs, now)
         table == [sessions EXCEPT ![session.id] =
                     [@ EXCEPT !.expires_at = toISOString(session.expiresAt)]]
     IN IF fail \/ session.id \notin DOMAIN sessions
          THEN /\ ret' = ExtendRet(FALSE, TRUE, FALSE, 0, 0, sessions)
               /\ UNCHANGED sessions
        ELSE /\ sessions' = table
             /\ ret' = ExtendRet(TRUE, TRUE, FALSE,
                                 ParseDate(sessions[session.id].expires_at),
                                 ParseDate(table[session.id].expires_at), table)
  /\ pc' = [pc EXCEPT ![p] = "idle"]
  /\ loc' = [loc EXCEPT ![p] = Idle]
  /\ UNCHANGED <<users, now, isInitialized, browser, tally, nUid, nSid>>

\* the rows that match  user_id = ? AND expires_at > datetime('now')
ActiveBySql(userId, t) ==
  {x \in DOMAIN sessions :
     /\ sessions[x].user_id = userId
     /\ TextLess(SqliteNow(t), sessions[x].expires_at)}

\* ORDER BY created_at DESC: the orders SQLite may return the rows in (rows
\* with the same created_at come in either order)
OrderedByCreatedDesc(ids) ==
  {order \in [1..Cardinality(ids) -> ids] :
     /\ \A i, j \in DOMAIN order : i # j => order[i] # order[j]
     /\ \A i, j \in DOMAIN order :
          i < j => ~TextLess(sessions[order[i]].created_at, sessions[order[j]].created_at)}

\* getUserSessions: [] for an empty user id and when the statement fails
GetUserSessions(userId, fail) ==
  /\ ret = NoRet
  /\ \E order \in OrderedByCreatedDesc(ActiveBySql(sanitizeInput(userId), now)) :
       ret' = [op |-> "getUserSessions", userId |-> userId, failed |-> fail,
               result |-> IF sanitizeInput(userId) = <<>> \/ fail THEN <<>>
                          ELSE [i \in DOMAIN order |-> fromDatabaseRow(sessions[order[i]])]]
  /\ UNCHANGED <<users, sessions, now, isInitialized, browser, pc, loc, tally,
                 nUid, nSid>>

\* the caller takes the outcome of the call that returned
Return ==
  /\ ret # NoRet
  /\ ret' = NoRet
  /\ UNCHANGED <<users, sessions, now, isInitialized, browser, pc, loc, tally, nUid, nSid>>

\* the clock advances
Tick ==
  /\ ret = NoRet
  /\ now < MaxTime
  /\ now' = now + 1
  /\ UNCHANGED <<users, sessions, isInitialized, browser, pc, loc, ret, tally, nUid, nSid>>

-----------------------------------------------------------------------------
(* OAuth errors and the state parameter *)

\* an error message is a sequence of words
MsgInvalidState == <<"Invalid", "state", "parameter", "-", "possible", "CSRF", "attack">>
MsgCodeRequired == <<"Authorization", "code", "is", "required">>
MsgNotInitialized == <<"OAuth", "service", "not", "initialized">>
MsgExchangeFailed == <<"Failed", "to", "exchange", "authorization", "code">>
MsgProfileFailed == <<"Failed", "to", "process", "user", "profile">>

\* createOAuthError
createOAuthError(type, message, statusCode) ==
  [type |-> type, message |-> message, statusCode |-> statusCode]

NoOAuthError == createOAuthError("none", <<>>, 0)

\* String.prototype.includes, on words
Includes(message, words) ==
  \E i \in 0..(Len(message) - Len(words)) :
    SubSeq(message, i + 1, i + Len(words)) = words

\* mutant: the generic branch keeps the status of the error it was given
handleOAuthError_KeepStatus(error) ==
  IF Includes(error.message, <<"Invalid", "state", "parameter">>)
    THEN Err("OAUTH_INVALID_STATE", 400)
  ELSE Err("OAUTH_CALLBACK_ERROR", error.statusCode)

\* mutant: the handlers rethrow the error they caught
handleOAuthError_PassThrough(error) == Err(error.type, error.statusCode)

\* handleOAuthError: the error the callback handlers rethrow
handleOAuthError(error) ==
  IF Includes(error.message, <<"Invalid", "state", "parameter">>)
    THEN Err("OAUTH_INVALID_STATE", 400)
  ELSE IF Includes(error.message, <<"access_denied">>)
    THEN Err("OAUTH_PROVIDER_ERROR", 403)
  ELSE IF Includes(error.message, <<"invalid_client">>)
    THEN Err("OAUTH_PROVIDER_ERROR", 500)
  ELSE IF Includes(error.message, <<"User", "not", "found">>)
    THEN Err("OAUTH_PROFILE_ERROR", 500)
  ELSE Err("OAUTH_CALLBACK_ERROR", 500)

\* mutant: states of equal length are taken to be equal
validateOAuthState_LengthOnly(requestState, sessionState) ==
  /\ Truthy(requestState) /\ Truthy(sessionState)
  /\ Len(requestState) = Len(sessionState)

\* String.prototype.charCodeAt for the characters of the state tokens
charCodeAt(s, i) ==
  CASE s[i] = "a" -> 97
    [] s[i] = "b" -> 98
    [] s[i] = "c" -> 99
    [] OTHER -> 63

\* the bitwise operators ^ and |
RECURSIVE BitXor(_, _)
BitXor(x, y) ==
  IF x = 0 /\ y = 0 THEN 0
  ELSE (((x % 2) + (y % 2)) % 2) + 2 * BitXor(x \div 2, y \div 2)

RECURSIVE BitOr(_, _)
BitOr(x, y) ==
  IF x = 0 /\ y = 0 THEN 0
  ELSE (IF (x % 2) = 1 \/ (y % 2) = 1 THEN 1 ELSE 0) + 2 * BitOr(x \div 2, y \div 2)

\* the loop of validateOAuthState: result |= a.charCodeAt(i) ^ b.charCodeAt(i)
RECURSIVE CompareLoop(_, _, _, _)
CompareLoop(requestState, sessionState, i, result) ==
  IF i > Len(requestState) THEN result
  ELSE CompareLoop(requestState, sessionState, i + 1,
         BitOr(result, BitXor(charCodeAt(requestState, i), charCodeAt(sessionState, i))))

\* mutant: the loop stops after the first character
validateOAuthState_FirstChar(requestState, sessionState) ==
  /\ Truthy(requestState) /\ Truthy(sessionState)
  /\ Len(requestState) = Len(sessionState)
  /\ requestState[1] = sessionState[1]

\* validateOAuthState: both present, equal length, and the accumulated
\* difference of the character codes is 0
validateOAuthState(requestState, sessionState) ==
  /\ Truthy(requestState) /\ Truthy(sessionState)
  /\ Len(requestState) = Len(sessionState)
  /\ CompareLoop(requestState, sessionState, 1, 0) = 0

\* validateOAuthState called directly
ValidateState(requestState, sessionState) ==
  /\ ret = NoRet
  /\ ret' = [op |-> "validateOAuthState",
             requestState |-> requestState, sessionState |-> sessionState,
             result |-> validateOAuthState(requestState, sessionState)]
  /\ UNCHANGED <<users, sessions, now, isInitialized, browser, pc, loc, tally,
                 nUid, nSid>>

\* generateOAuthState: the tokens randomBytes can give
StateTokens == {<<"a">>, <<"b">>}

\* mutant: the code is not checked before the exchange
CallbackPrecheck_NoCodeCheck(code, state, sessionState) ==
  IF ~isInitialized
    THEN createOAuthError("OAUTH_PROVIDER_ERROR", MsgNotInitialized, 500)
  ELSE IF Truthy(code) /\ Truthy(state) /\ Truthy(sessionState)
          /\ ~validateOAuthState(state, sessionState)
    THEN createOAuthError("OAUTH_INVALID_STATE", MsgInvalidState, 400)
  ELSE NoOAuthError

\* handleMicrosoftCallback / handleGitHubCallback up to the code exchange: the
\* error thrown by ensureInitialized, the code check or the state check
\* mutant: a state that has nothing to be compared with counts as invalid
CallbackPrecheck_StateRequired(code, state, sessionState) ==
  IF ~isInitialized
    THEN createOAuthError("OAUTH_PROVIDER_ERROR", MsgNotInitialized, 500)
  ELSE IF ~Truthy(code)
    THEN createOAuthError("OAUTH_CALLBACK_ERROR", MsgCodeRequired, 400)
  ELSE IF ~(Truthy(state) /\ Truthy(sessionState)
            /\ validateOAuthState(state, sessionState))
    THEN createOAuthError("OAUTH_INVALID_STATE", MsgInvalidState, 400)
  ELSE NoOAuthError

CallbackPrecheck(code, state, sessionState) ==
  IF ~isInitialized
    THEN createOAuthError("OAUTH_PROVIDER_ERROR", MsgNotInitialized, 500)
  ELSE IF ~Truthy(code)
    THEN createOAuthError("OAUTH_CALLBACK_ERROR", MsgCodeRequired, 400)
  ELSE IF Truthy(state) /\ Truthy(sessionState) /\ ~validateOAuthState(state, sessionState)
    THEN createOAuthError("OAUTH_INVALID_STATE", MsgInvalidState, 400)
  ELSE NoOAuthError

\* initializeOAuth: loadOAuthConfig throws when a credential is missing
InitializeOAuth(configOk) ==
  /\ ret = NoRet
  /\ ~isInitialized
  /\ isInitialized' = configOk
  /\ ret' = [op |-> "initializeOAuth",
             error |-> IF configOk THEN NoError ELSE Err("OAUTH_PROVIDER_ERROR", 500)]
  /\ UNCHANGED <<users, sessions, now, browser, pc, loc, tally, nUid, nSid>>

\* GET /auth/microsoft, GET /auth/github: store a fresh state token

\* loadOAuthConfig: redirectUri: `${baseUrl}/auth/callback/<provider>`, the
\* redirect_uri of the authorization URL (the path below the base URL)
redirectUri(provider) ==
  <<(<<"a", "u", "t", "h">>), (<<"c", "a", "l", "l", "b", "a", "c", "k">>), provider>>

\* router.get('/auth/<provider>/callback', ...)
CallbackRoutePath(provider) ==
  <<(<<"a", "u", "t", "h">>), provider, (<<"c", "a", "l", "l", "b", "a", "c", "k">>)>>

\* the providers whose callback route matches the path of a GET request
RoutedTo(path) == {q \in {MICROSOFT, GITHUB} : CallbackRoutePath(q) = path}

AuthInitiate(b, provider, state) ==
  /\ ret = NoRet
  /\ browser' = [browser EXCEPT ![b].oauthState = state]
  /\ ret' = [op |-> "initiate", provider |-> provider, state |-> state,
             redirectUri |-> redirectUri(provider)]
  /\ UNCHANGED <<users, sessions, now, isInitialized, pc, loc, tally, nUid, nSid>>

-----------------------------------------------------------------------------
(* The callback: GET /auth/<provider>/callback, or handle<Provider>Callback   *)
(* called directly (viaRoute = FALSE), in the steps its awaits separate      *)

\* no request was sent to the provider
NoRequests == [token |-> 0, tokenOk |-> FALSE, profile |-> 0, emails |-> 0]

\* no profile: the handler has none yet, or it threw
NoProfile == [id |-> Absent, username |-> Absent, email |-> Absent, provider |-> Absent]

\* mutant: the handler returns the provider-assigned id
ReturnedProfile_ProviderId(provider, user) ==
  [id |-> user.provider_id, username |-> user.username, email |-> user.email,
   provider |-> provider]

\* what the handler returns: { id: user.id, username: user.username,
\* email: user.email, provider: <the handler's provider> }
ReturnedProfile(provider, user) ==
  [id |-> user.id, username |-> user.username, email |-> user.email,
   provider |-> provider]

CallbackRet(l, called, error, written, sessionCreated) ==
  [op |-> "callback", viaRoute |-> l.viaRoute, b |-> l.b, provider |-> l.provider,
   called |-> called, initialized |-> l.initialized, codeEmpty |-> l.codeEmpty,
   bothPresent |-> l.bothPresent, stateMatched |-> l.stateMatched,
   error |-> error, written |-> written, sessionCreated |-> sessionCreated,
   looked |-> l.looked, found |-> l.found, differs |-> l.differs,
   updateCalls |-> l.updateCalls, userDone |-> l.userDone,
   pairCount |-> l.pairCount, createdCount |-> l.createdCount,
   keptId |-> l.keptId, rowSame |-> l.rowSame, fieldsKept |-> l.fieldsKept,
   bumped |-> l.bumped, thrown |-> l.thrown,
   profile |-> l.profile, returned |-> l.returned, exchanged |-> l.exchanged,
   requests |-> l.requests,
   redirect |-> IF ~l.viaRoute THEN "none"
                ELSE IF sessionCreated THEN "/dashboard" ELSE "/?error"]

\* the request is answered, or the direct call returns or throws
CallbackDone(p, l, called, error, written, sessionCreated) ==
  /\ ret' = CallbackRet(l, called, error, written, sessionCreated)
  /\ pc' = [pc EXCEPT ![p] = "idle"]
  /\ loc' = [loc EXCEPT ![p] = Idle]

\* what the handler rethrows for an error of the code exchange and for one
\* caught by findOrCreateUser
ExchangeFailure ==
  handleOAuthError(createOAuthError("OAUTH_TOKEN_ERROR", MsgExchangeFailed, 500))
ProfileFailure ==
  handleOAuthError(createOAuthError("OAUTH_PROFILE_ERROR", MsgProfileFailed, 500))

\* the handler fails: exchangeCodeForProfile threw (the token exchange or the
\* profile fetch failed), or findOrCreateUser threw (a User Store call failed)
ExchangeFailed(p, l) ==
  CallbackDone(p, [l EXCEPT !.thrown = "exchange"], TRUE, ExchangeFailure, FALSE, FALSE)
UserStoreFailed(p, l) ==
  CallbackDone(p, [l EXCEPT !.thrown = "userStore"], TRUE, ProfileFailure, FALSE, FALSE)

\* the route's checks of the query, then the handler up to the code exchange
CallbackStart(p, b, provider, viaRoute, errorParam, code, state, sessionStateArg) ==
  /\ pc[p] = "idle" /\ ret = NoRet
  /\ LET sessionState == IF viaRoute THEN browser[b].oauthState ELSE sessionStateArg
         l == [op |-> "callback", viaRoute |-> viaRoute, b |-> b, provider |-> provider,
               initialized |-> isInitialized, codeEmpty |-> ~Truthy(code),
               bothPresent |-> Truthy(state) /\ Truthy(sessionState),
               stateMatched |-> Truthy(sessionState) /\ state = sessionState,
               looked |-> FALSE, found |-> FALSE, differs |-> FALSE,
               updateCalls |-> 0, userDone |-> FALSE, pairCount |-> 0,
               createdCount |-> 0, keptId |-> FALSE, rowSame |-> FALSE,
               fieldsKept |-> FALSE, bumped |-> FALSE, stored |-> NoUser,
               thrown |-> "none", profile |-> NoProfile, returned |-> NoProfile,
               exchanged |-> FALSE, requests |-> NoRequests]
         pre == CallbackPrecheck(code, state, sessionState)
     IN IF viaRoute /\ (errorParam \/ ~Truthy(code))
          THEN CallbackDone(p, l, FALSE, NoError, FALSE, FALSE)
        ELSE IF pre # NoOAuthError
          THEN CallbackDone(p, l, TRUE, handleOAuthError(pre), FALSE, FALSE)
        ELSE /\ pc' = [pc EXCEPT ![p] = "cbExchange"]
             /\ loc' = [loc EXCEPT ![p] = l]
             /\ UNCHANGED ret
  /\ UNCHANGED <<users, sessions, now, isInitialized, browser, tally, nUid, nSid>>

\* the user is there: a direct call returns the profile, the route goes on to
\* createSession
AfterUser(p, l0, userId, written, table) ==
  LET profile == l0.profile
      stored == l0.stored
      l == [l0 EXCEPT
              !.returned = ReturnedProfile(l0.provider, table[userId]),
              !.userDone = TRUE,
              !.pairCount = Cardinality({id \in DOMAIN table :
                               /\ table[id].provider_id = sanitizeInput(profile.id)
                               /\ table[id].provider = profile.provider}),
              !.createdCount = Cardinality(DOMAIN table \ DOMAIN users),
              !.keptId = l0.found /\ userId = stored.id /\ userId \in DOMAIN table,
              !.rowSame = l0.found /\ table[userId] = stored,
              !.bumped = l0.found /\ table[userId].updated_at # stored.updated_at,
              !.fieldsKept =
                 /\ l0.found
                 /\ profile.username = stored.username =>
                      table[userId].username = stored.username
                 /\ profile.email = stored.email =>
                      table[userId].email = stored.email]
  IN IF l.viaRoute
       THEN /\ pc' = [pc EXCEPT ![p] = "cbSessionCheck"]
            /\ loc' = [loc EXCEPT ![p] =
                  [x \in DOMAIN l \cup {"userId", "written"} |->
                     IF x = "userId" THEN l.returned.id
                     ELSE IF x = "written" THEN written ELSE l[x]]]
            /\ UNCHANGED ret
     ELSE CallbackDone(p, l, TRUE, NoError, written, FALSE)

\* outcome is what the provider answers: no token ("fail"), a token but no
\* profile ("nopro"), or the profile of its one account under either of two
\* display names, under a display name with a trailing blank, or without a
\* public e-mail address

\* mutant: a failed token request is sent a second time
ProviderRequests_Retry(provider, outcome) ==
  [token |-> IF outcome = "fail" THEN 2 ELSE 1,
   tokenOk |-> outcome # "fail",
   profile |-> IF outcome = "fail" THEN 0 ELSE 1,
   emails |-> IF provider = GITHUB /\ outcome \notin {"fail", "nopro"} THEN 1 ELSE 0]

\* the requests exchangeMicrosoftCode / exchangeGitHubCode send: the token
\* endpoint; when it answered ok ("fail": it did not), the profile endpoint;
\* when that answered ok ("nopro": it did not), for GitHub the e-mail list
ProviderRequests(provider, outcome) ==
  [token |-> 1,
   tokenOk |-> outcome # "fail",
   profile |-> IF outcome = "fail" THEN 0 ELSE 1,
   emails |-> IF provider = GITHUB /\ outcome \notin {"fail", "nopro"} THEN 1 ELSE 0]

\* normalizeProfile of the provider's answer
normalizeProfile(provider, outcome) ==
  Prof(<<"g", "1">>,
       IF outcome = "bo" THEN <<"b", "o">>
       ELSE IF outcome = "padded" THEN <<"b", "o", " ">> ELSE <<"a", "l">>,
       IF outcome = "noemail" THEN <<>> ELSE GoodEmail,
       provider)

\* mutant: every login of an existing user updates it
needsUpdate_Always(user, profile) == TRUE

\* findOrCreateUser: user.username !== profile.username || user.email !== profile.email
needsUpdate(user, profile) ==
  user.username # profile.username \/ user.email # profile.email

\* the provider answers the code exchange; findOrCreateUser looks the user up
CallbackExchange(p, outcome) ==
  /\ pc[p] = "cbExchange" /\ ret = NoRet
  /\ LET profile == normalizeProfile(loc[p].provider, outcome)
         ids == FindByProviderId(profile.id, profile.provider)
         user == IF ids = {} THEN NoUser ELSE users[CHOOSE x \in ids : TRUE]
         l == [x \in DOMAIN loc[p] \cup {"profile", "userId"} |->
                 CASE x = "profile" -> profile
                   [] x = "userId" -> user.id
                   [] x = "looked" -> TRUE
                   [] x = "found" -> ids # {}
                   [] x = "differs" ->
                        /\ ids # {}
                        /\ \/ user.username # profile.username
                           \/ user.email # profile.email
                   [] x = "stored" -> user
                   [] x = "exchanged" -> TRUE
                   [] x = "requests" -> ProviderRequests(loc[p].provider, outcome)
                   [] OTHER -> loc[p][x]]
         sent == [loc[p] EXCEPT !.exchanged = TRUE,
                                !.requests = ProviderRequests(loc[p].provider, outcome)]
     IN IF outcome \in {"fail", "nopro"}
          THEN ExchangeFailed(p, sent)
        ELSE IF FindByProviderIdError(profile.id, profile.provider) # NoError
          THEN UserStoreFailed(p, sent)
        ELSE IF ids = {}
          THEN /\ pc' = [pc EXCEPT ![p] = "cbCreateCheck"]
               /\ loc' = [loc EXCEPT ![p] = l]
               /\ UNCHANGED ret
        ELSE IF needsUpdate(user, profile)
          THEN /\ pc' = [pc EXCEPT ![p] = "cbUpdateFind"]
               /\ loc' = [loc EXCEPT ![p] = l]
               /\ UNCHANGED ret
        ELSE AfterUser(p, l, user.id, FALSE, users)
  /\ UNCHANGED <<users, sessions, now, isInitialized, browser, tally, nUid, nSid>>

\* findOrCreateUser, no user found: createUser up to its own lookup
CbCreateCheck(p) ==
  /\ pc[p] = "cbCreateCheck" /\ ret = NoRet
  /\ LET sp == SanitizeProfile(loc[p].profile)
     IN IF \/ ~UserValid(UserRow(Absent, sp, now))
           \/ FindByProviderIdError(sp.id, sp.provider) # NoError
           \/ FindByProviderId(sp.id, sp.provider) # {}
          THEN UserStoreFailed(p, loc[p])
        ELSE /\ UserIdsLeft
             /\ pc' = [pc EXCEPT ![p] = "cbCreateInsert"]
             /\ UNCHANGED <<loc, ret>>
  /\ UNCHANGED <<users, sessions, now, isInitialized, browser, tally, nUid, nSid>>

\* createUser's INSERT
CbCreateInsert(p) ==
  /\ pc[p] = "cbCreateInsert" /\ ret = NoRet
  /\ LET row == UserRow(Uuid(nUid + 1), SanitizeProfile(loc[p].profile), now)
     IN IF UniqueViolated(row)
          THEN /\ UserStoreFailed(p, loc[p])
               /\ UNCHANGED <<users, nUid>>
        ELSE /\ users' = InsertUser(row)
             /\ nUid' = nUid + 1
             /\ AfterUser(p, loc[p], row.id, TRUE, InsertUser(row))
  /\ UNCHANGED <<sessions, now, isInitialized, browser, tally, nSid>>

\* findOrCreateUser, the profile changed: updateUser up to its findById
CbUpdateFind(p) ==
  /\ pc[p] = "cbUpdateFind" /\ ret = NoRet
  /\ LET l == [loc[p] EXCEPT !.updateCalls = @ + 1]
     IN IF FindById(l.userId) = {}
          THEN UserStoreFailed(p, l)
        ELSE /\ pc' = [pc EXCEPT ![p] = "cbUpdateWrite"]
             /\ loc' = [loc EXCEPT ![p] =
                   [x \in DOMAIN l \cup {"existingUser"} |->
                      IF x = "existingUser" THEN users[l.userId] ELSE l[x]]]
             /\ UNCHANGED ret
  /\ UNCHANGED <<users, sessions, now, isInitialized, browser, tally, nUid, nSid>>

\* User.update with the new username and e-mail
UpdatedUser(existingUser, profile, t) ==
  [existingUser EXCEPT !.username = sanitizeInput(profile.username),
                       !.email = sanitizeInput(profile.email),
                       !.updated_at = toISOString(t)]

\* updateUser's validation and UPDATE (no row affected is an error)
CbUpdateWrite(p) ==
  /\ pc[p] = "cbUpdateWrite" /\ ret = NoRet
  /\ LET row == UpdatedUser(loc[p].existingUser, loc[p].profile, now)
     IN IF ~UserValid(row) \/ row.id \notin DOMAIN users
          THEN /\ UserStoreFailed(p, loc[p])
               /\ UNCHANGED users
        ELSE /\ users' = [users EXCEPT ![row.id] = row]
             /\ AfterUser(p, loc[p], row.id, TRUE, [users EXCEPT ![row.id] = row])
  /\ UNCHANGED <<sessions, now, isInitialized, browser, tally, nUid, nSid>>

\* AuthService.createSession: SessionManager.create up to verifyUserExists
CbSessionCheck(p) ==
  /\ pc[p] = "cbSessionCheck" /\ ret = NoRet
  /\ LET sanitizedUserId == sanitizeInput(loc[p].userId)
     IN IF sanitizedUserId = <<>>
          THEN CallbackDone(p, loc[p], TRUE, Err("VALIDATION_ERROR", 400),
                            loc[p].written, FALSE)
        ELSE IF sanitizedUserId \notin DOMAIN users
          THEN CallbackDone(p, loc[p], TRUE, Err("USER_NOT_FOUND", 404),
                            loc[p].written, FALSE)
        ELSE /\ SessionIdsLeft
             /\ pc' = [pc EXCEPT ![p] = "cbSessionInsert"]
             /\ UNCHANGED <<loc, ret>>
  /\ UNCHANGED <<users, sessions, now, isInitialized, browser, tally, nUid, nSid>>

\* mutant: the route stores the session id before it knows that the session
\* was created
CbSessionInsert_StoresFirst(p) ==
  /\ pc[p] = "cbSessionInsert" /\ ret = NoRet
  /\ LET session == [id |-> generateSecureSessionId(nSid + 1),
                     userId |-> sanitizeInput(loc[p].userId),
                     createdAt |-> now,
                     expiresAt |-> now + DurationOrDefault(<<>>)]
         row == toDatabaseRow(session)
     IN /\ nSid' = nSid + 1
        /\ IF ~SessionValid(session, now)
             THEN /\ CallbackDone(p, loc[p], TRUE, Err("VALIDATION_ERROR", 400),
                                  loc[p].written, FALSE)
                  /\ UNCHANGED <<sessions, browser>>
           ELSE IF ForeignKeyViolated(row)
             THEN /\ CallbackDone(p, loc[p], TRUE, Err("DATABASE_ERROR", 500),
                                  loc[p].written, FALSE)
                  /\ browser' = [browser EXCEPT ![loc[p].b] =
                        [sessionId |-> session.id, oauthState |-> Absent]]
                  /\ UNCHANGED sessions
           ELSE /\ sessions' = InsertSession(row)
                /\ browser' = [browser EXCEPT ![loc[p].b] =
                      [sessionId |-> session.id, oauthState |-> Absent]]
                /\ CallbackDone(p, loc[p], TRUE, NoError, loc[p].written, TRUE)
  /\ UNCHANGED <<users, now, isInitialized, tally, nUid>>

\* SessionManager.create's INSERT; then the route stores the session id in the
\* browser context, drops the state token and redirects to the dashboard
CbSessionInsert(p) ==
  /\ pc[p] = "cbSessionInsert" /\ ret = NoRet
  /\ LET session == [id |-> generateSecureSessionId(nSid + 1),
                     userId |-> sanitizeInput(loc[p].userId),
                     createdAt |-> now,
                     expiresAt |-> now + DurationOrDefault(<<>>)]
         row == toDatabaseRow(session)
     IN /\ nSid' = nSid + 1
        /\ IF ~SessionValid(session, now)
             THEN /\ CallbackDone(p, loc[p], TRUE, Err("VALIDATION_ERROR", 400),
                                  loc[p].written, FALSE)
                  /\ UNCHANGED <<sessions, browser>>
           ELSE IF ForeignKeyViolated(row)
             THEN /\ CallbackDone(p, loc[p], TRUE, Err("DATABASE_ERROR", 500),
                                  loc[p].written, FALSE)
                  /\ UNCHANGED <<sessions, browser>>
           ELSE /\ sessions' = InsertSession(row)
                /\ browser' = [browser EXCEPT ![loc[p].b] =
                      [sessionId |-> session.id, oauthState |-> Absent]]
                /\ CallbackDone(p, loc[p], TRUE, NoError, loc[p].written, TRUE)
  /\ UNCHANGED <<users, now, isInitialized, tally, nUid>>

-----------------------------------------------------------------------------
(* AuthService.createSession and destroySession, called directly *)

\* a thrown value that is not an AppError (an Error of the runtime)
PlainError == [type |-> "Error", statusCode |-> 0]

\* isAppError: an object with type, message and statusCode
isAppError(error) == error # PlainError

\* mutant: the catch block wraps whatever was thrown
CreateSessionCatch_Translate(error) == Err("AUTHENTICATION_FAILED", 500)

\* the catch block of createSession and destroySession: an AppError is
\* rethrown as it is, anything else becomes AUTHENTICATION_FAILED
CreateSessionCatch(error) ==
  IF isAppError(error) THEN error ELSE Err("AUTHENTICATION_FAILED", 500)

CreateSessionRet(initialized, emptyInput, storeCalled, storeError, created, table) ==
  [op |-> "createSession", initialized |-> initialized, emptyInput |-> emptyInput,
   storeCalled |-> storeCalled, storeError |-> storeError,
   error |-> IF storeError = NoError THEN NoError ELSE CreateSessionCatch(storeError),
   created |-> created, unchanged |-> table = sessions]

\* createSession: the check of the user id, then SessionManager.create up to
\* verifyUserExists (no ensureInitialized is called)
AuthCreateSessionCheck(p, userId, fail) ==
  /\ pc[p] = "idle" /\ ret = NoRet
  /\ IF ~Truthy(userId) \/ Trim(userId) = <<>>
       THEN /\ ret' = [CreateSessionRet(isInitialized, TRUE, FALSE, NoError, FALSE, sessions)
                         EXCEPT !.error = CreateSessionCatch(Err("VALIDATION_ERROR", 400))]
            /\ UNCHANGED <<pc, loc>>
     ELSE IF fail \/ sanitizeInput(userId) \notin DOMAIN users
       THEN /\ ret' = CreateSessionRet(isInitialized, FALSE, TRUE,
                                       Err("USER_NOT_FOUND", 404), FALSE, sessions)
            /\ UNCHANGED <<pc, loc>>
     ELSE /\ SessionIdsLeft
          /\ pc' = [pc EXCEPT ![p] = "authSessionInsert"]
          /\ loc' = [loc EXCEPT ![p] =
                [op |-> "createSession", userId |-> sanitizeInput(userId),
                 initialized |-> isInitialized]]
          /\ UNCHANGED ret
  /\ UNCHANGED <<users, sessions, now, isInitialized, browser, tally, nUid, nSid>>

\* createSession: SessionManager.create's INSERT; the session id is returned
AuthCreateSessionInsert(p, fail) ==
  /\ pc[p] = "authSessionInsert" /\ ret = NoRet
  /\ LET session == [id |-> generateSecureSessionId(nSid + 1),
                     userId |-> loc[p].userId,
                     createdAt |-> now,
                     expiresAt |-> now + DurationOrDefault(<<>>)]
         row == toDatabaseRow(session)
         Done(storeError, table) ==
           /\ sessions' = table
           /\ ret' = CreateSessionRet(loc[p].initialized, FALSE, TRUE, storeError,
                                      storeError = NoError, table)
     IN /\ nSid' = nSid + 1
        /\ IF ~SessionValid(session, now)
             THEN Done(Err("VALIDATION_ERROR", 400), sessions)
           ELSE IF fail \/ ForeignKeyViolated(row)
             THEN Done(Err("DATABASE_ERROR", 500), sessions)
           ELSE Done(NoError, InsertSession(row))
  /\ pc' = [pc EXCEPT ![p] = "idle"]
  /\ loc' = [loc EXCEPT ![p] = Idle]
  /\ UNCHANGED <<users, now, isInitialized, browser, tally, nUid>>

\* destroySession: the check of the session id, then SessionManager.destroy
\* (no ensureInitialized is called)
AuthDestroySession(sessionId, fail) ==
  /\ ret = NoRet
  /\ LET empty == ~Truthy(sessionId) \/ Trim(sessionId) = <<>>
         table == IF empty THEN sessions ELSE DestroyTable(sessionId, fail)
         thrown == IF empty THEN Err("VALIDATION_ERROR", 400)
                   ELSE DestroyError(sessionId, fail)
     IN /\ sessions' = table
        /\ ret' = [op |-> "destroySession", initialized |-> isInitialized,
                   emptyInput |-> empty,
                   error |-> IF thrown = NoError THEN NoError
                             ELSE CreateSessionCatch(thrown),
                   unchanged |-> table = sessions]
  /\ UNCHANGED <<users, now, isInitialized, browser, pc, loc, tally, nUid, nSid>>

-----------------------------------------------------------------------------
(* AuthService.validateSession, called directly (viaRoute = FALSE) or by the *)
(* requireAuth middleware of GET /dashboard                                  *)

\* the browser context after req.session.destroy
NoContext == [sessionId |-> Absent, oauthState |-> Absent]

\* mutant: validateSession rethrows what its try block threw
ValidateSessionCatch_Rethrow(dbError) == dbError

\* validateSession's catch block: whether validateSession itself throws
ValidateSessionCatch(dbError) == FALSE

\* mutant: the middleware calls next() whatever validateSession returned
RequireAuthProceeds_Always(user) == TRUE

\* requireAuth: if (!user) redirect, else attach the user and call next()
RequireAuthProceeds(user) == user # Absent

\* validateSession returns (user: the user's id, Absent for null); the
\* middleware answers
VsDone(p, l, user, dbError, orphan, tableAfter) ==
  LET threw == ValidateSessionCatch(dbError)
      proceeds == l.viaRoute /\ ~threw /\ RequireAuthProceeds(user)
  IN /\ ret' = [op |-> "validateSession", viaRoute |-> l.viaRoute, held |-> l.held,
                emptyInput |-> l.emptyInput, goneBefore |-> l.goneBefore,
                rowSeen |-> l.rowSeen, userSeen |-> l.userSeen,
                returned |-> user # Absent,
                userIsOwner |-> user # Absent /\ user = l.owner,
                threw |-> threw, dbError |-> dbError, orphan |-> orphan,
                rowAfter |-> l.sid \in DOMAIN tableAfter,
                response |-> IF ~l.viaRoute THEN "none"
                             ELSE IF proceeds THEN "next" ELSE "/",
                handlerRun |-> proceeds]
     /\ browser' = IF l.viaRoute /\ l.held /\ ~threw /\ ~RequireAuthProceeds(user)
                     THEN [browser EXCEPT ![l.b] = NoContext]
                   ELSE browser
     /\ pc' = [pc EXCEPT ![p] = "idle"]
     /\ loc' = [loc EXCEPT ![p] = Idle]

\* the middleware reads the session id of the browser context; validateSession
\* checks it and calls SessionManager.validate
VsStart(p, b, viaRoute, sessionIdArg, fail) ==
  /\ pc[p] = "idle" /\ ret = NoRet
  /\ LET sessionId == IF viaRoute THEN browser[b].sessionId ELSE sessionIdArg
         f == SessionFacts(sessionId)
         out == Validate(sessionId, fail)
         l == [op |-> "validateSession", viaRoute |-> viaRoute, b |-> b,
               sessionId |-> sessionId, sid |-> f.sid,
               held |-> viaRoute /\ Truthy(sessionId),
               emptyInput |-> f.emptyInput, goneBefore |-> f.goneBefore,
               rowSeen |-> f.hadRow /\ ~f.wasExpired, userSeen |-> FALSE,
               owner |-> IF f.hadRow THEN sessions[f.sid].user_id ELSE Absent]
     IN IF ~Truthy(sessionId) \/ Trim(sessionId) = <<>>
          THEN /\ VsDone(p, l, Absent, FALSE, FALSE, sessions)
               /\ UNCHANGED sessions
        ELSE /\ sessions' = out.table
             /\ IF out.session = NoSession
                  THEN VsDone(p, l, Absent, out.dbError, FALSE, out.table)
                ELSE /\ pc' = [pc EXCEPT ![p] = "vsFindUser"]
                     /\ loc' = [loc EXCEPT ![p] =
                           [x \in DOMAIN l \cup {"userId"} |->
                              IF x = "userId" THEN out.session.userId ELSE l[x]]]
                     /\ UNCHANGED <<ret, browser>>
  /\ UNCHANGED <<users, now, isInitialized, tally, nUid, nSid>>

\* userService.findById(session.userId); a failing query is caught
VsFindUser(p, fail) ==
  /\ pc[p] = "vsFindUser" /\ ret = NoRet
  /\ LET l == [loc[p] EXCEPT !.userSeen = loc[p].userId \in DOMAIN users]
     IN IF fail THEN VsDone(p, l, Absent, TRUE, FALSE, sessions)
        ELSE IF FindById(loc[p].userId) # {}
          THEN VsDone(p, l, CHOOSE id \in FindById(loc[p].userId) : TRUE,
                      FALSE, FALSE, sessions)
        ELSE /\ pc' = [pc EXCEPT ![p] = "vsDestroy"]
             /\ loc' = [loc EXCEPT ![p] = l]
             /\ UNCHANGED <<ret, browser>>
  /\ UNCHANGED <<users, sessions, now, isInitialized, tally, nUid, nSid>>

\* the session's user is gone: sessionManager.destroy(sessionId), return null
VsDestroy(p, fail) ==
  /\ pc[p] = "vsDestroy" /\ ret = NoRet
  /\ sessions' = DestroyTable(loc[p].sessionId, fail)
  /\ VsDone(p, loc[p], Absent, DestroyError(loc[p].sessionId, fail) # NoError, TRUE,
            DestroyTable(loc[p].sessionId, fail))
  /\ UNCHANGED <<users, now, isInitialized, tally, nUid, nSid>>

-----------------------------------------------------------------------------
(* POST /logout *)

\* mutant: the route never destroys the session row
LogoutDestroys_Never(sessionId) == FALSE

\* if (sessionId) await authService.destroySession(sessionId)
LogoutDestroys(sessionId) == Truthy(sessionId)

\* the route reads the session id and destroySession deletes the row; an error
\* is caught by the route
LogoutStart(p, b, fail) ==
  /\ pc[p] = "idle" /\ ret = NoRet
  /\ LET sessionId == browser[b].sessionId
         destroys == LogoutDestroys(sessionId)
     IN /\ sessions' = IF destroys THEN DestroyTable(sessionId, fail) ELSE sessions
        /\ pc' = [pc EXCEPT ![p] = "logoutFinish"]
        /\ loc' = [loc EXCEPT ![p] =
              [op |-> "logout", b |-> b, sessionId |-> sessionId,
               held |-> Truthy(sessionId),
               dbError |-> destroys /\ DestroyError(sessionId, fail) # NoError]]
  /\ UNCHANGED <<users, now, isInitialized, browser, ret, tally, nUid, nSid>>

\* req.session.destroy, then the redirect to the login page
LogoutFinish(p) ==
  /\ pc[p] = "logoutFinish" /\ ret = NoRet
  /\ browser' = [browser EXCEPT ![loc[p].b] = NoContext]
  /\ ret' = [op |-> "logout", held |-> loc[p].held, dbError |-> loc[p].dbError,
             rowAfter |-> loc[p].sessionId \in DOMAIN sessions,
             browserHolds |-> /\ loc[p].held
                              /\ browser'[loc[p].b].sessionId = loc[p].sessionId,
             redirect |-> "/"]
  /\ pc' = [pc EXCEPT ![p] = "idle"]
  /\ loc' = [loc EXCEPT ![p] = Idle]
  /\ UNCHANGED <<users, sessions, now, isInitialized, tally, nUid, nSid>>

-----------------------------------------------------------------------------

\* the state after construction, over a users table
InitWith(table) ==
  /\ users = table
  /\ nUid = Cardinality(DOMAIN table)
  /\ sessions = <<>>
  /\ now = 0
  /\ isInitialized = FALSE
  /\ browser = [b \in Browsers |-> [sessionId |-> Absent, oauthState |-> Absent]]
  /\ pc = [p \in Procs |-> "idle"]
  /\ loc = [p \in Procs |-> Idle]
  /\ ret = NoRet
  /\ tally = [pair \in Pairs |-> [calls |-> 0, ok |-> 0, conflict |-> 0]]
  /\ nSid = 0

\* the empty database
Init == InitWith(<<>>)

\* the database after one createUser (a state SpecUsers reaches)
OneUser ==
  LET row == UserRow(Uuid(1), Prof(<<"g", "1">>, <<"a", "l">>, GoodEmail, GITHUB), 0)
  IN [id \in {row.id} |-> row]

InitOneUser == InitWith(OneUser)

NextUsers ==
  \/ \E p \in Procs :
       \/ \E profile \in Profiles : CreateUserCheck(p, profile)
       \/ CreateUserInsert(p)
  \/ Return

SpecUsers == Init /\ [][NextUsers]_vars



\* the state values of the direct validateOAuthState calls: undefined, ''
\* and the strings of up to MaxStateLen characters
StateValues ==
  {Absent} \cup UNION {[1..n -> {"a", "b"}] : n \in 0..MaxStateLen}

NextState ==
  \/ \E requestState \in StateValues, sessionState \in StateValues :
       ValidateState(requestState, sessionState)
  \/ Return

SpecState == Init /\ [][NextState]_vars

\* users are created by two callers at a time and looked up
NextFind ==
  \/ \E p \in Procs :
       \/ \E profile \in Profiles \cup {Prof(<<"g", "1">>, <<"a", "l">>, GoodEmail, Pad(GITHUB))} :
            CreateUserCheck(p, profile)
       \/ CreateUserInsert(p)
  \/ \E providerId \in {<<"g", "1">>, Pad(<<"g", "1">>), <<"g", "2">>, <<" ">>},
        provider \in {GITHUB, Pad(GITHUB), MICROSOFT,
                      <<"G", "i", "t", "H", "u", "b">>, <<"g", "i", "t">>, <<" ">>} :
       FindUser(providerId, provider)
  \/ Return

SpecFind == Init /\ [][NextFind]_vars

\* the User Store called by two callers at a time, one creating users and
\* one updating the first user, while that user may be deleted
NextStore ==
  \/ \E profile \in Profiles : CreateUserCheck(1, profile)
  \/ CreateUserInsert(1)
  \/ \E userId \in {Uuid(1), <<" ">> \o Uuid(1), <<" ">>},
        profile \in PartialProfiles :
       UpdateUserFind(2, userId, profile)
  \/ UpdateUserWrite(2)
  \/ DeleteUser(Uuid(1))
  \/ Return

SpecStore == Init /\ [][NextStore]_vars

\* updateUser as time passes, beside a createUser for the same provider id
\* at the other provider and the deletion of the user
NextUpdate ==
  \/ \E userId \in {Uuid(1), Pad(Uuid(1)), <<" ">>, Uuid(MaxUsers)},
        profile \in PartialProfiles :
       UpdateUserFind(1, userId, profile)
  \/ UpdateUserWrite(1)
  \/ CreateUserCheck(2, Prof(<<"g", "1">>, <<"a", "l">>, GoodEmail, MICROSOFT))
  \/ CreateUserInsert(2)
  \/ DeleteUser(Uuid(1))
  \/ Tick
  \/ Return

SpecUpdate == InitOneUser /\ [][NextUpdate]_vars

\* the inputs of the SessionManager calls
UserIds == {Uuid(n) : n \in 1..MaxUsers}
SessionIds == {generateSecureSessionId(n) : n \in 1..MaxSessions}
SessionIdInputs ==
  SessionIds
    \cup {<<" ">> \o generateSecureSessionId(1) \o <<" ">>, <<" ">>, Absent}

\* the SessionManager called by one caller at a time, while users are deleted
\* and the clock advances
NextSessions ==
  \/ \E userId \in UserIds : DeleteUser(userId)
  \/ \E userId \in UserIds \cup {<<" ">> \o Uuid(1), <<" ">>},
        d \in {<<>>, <<1>>, <<-1>>}, fail \in BOOLEAN :
       SessionCreateCheck(1, userId, d, fail)
  \/ \E fail \in BOOLEAN : SessionCreateInsert(1, fail)
  \/ \E sessionId \in SessionIdInputs, fail \in {"none", "select", "delete"} :
       SessionValidate(sessionId, fail)
  \/ \E sessionId \in SessionIdInputs, fail \in BOOLEAN :
       SessionDestroy(sessionId, fail)
  \/ \E fail \in BOOLEAN : SessionCleanup(fail)
  \/ \E sessionId \in SessionIdInputs, d \in {<<>>, <<1>>},
        fail \in {"none", "select", "delete"} :
       SessionExtendValidate(1, sessionId, d, fail)
  \/ \E fail \in BOOLEAN : SessionExtendUpdate(1, fail)
  \/ Tick
  \/ Return

SpecSessions == InitOneUser /\ [][NextSessions]_vars



NextExpiry ==
  \/ \E d \in {<<>>, <<0>>, <<1>>, <<-1>>, <<0, 5>>} :
       SessionCreateCheck(1, Uuid(1), d, FALSE)
  \/ SessionCreateInsert(1, FALSE)
  \/ Tick
  \/ Return

SpecExpiry == InitOneUser /\ [][NextExpiry]_vars


\* users created and deleted while sessions are created, destroyed and swept
NextOwner ==
  \/ CreateUserCheck(1, Prof(<<"g", "1">>, <<"a", "l">>, GoodEmail, GITHUB))
  \/ CreateUserInsert(1)
  \/ \E userId \in UserIds : DeleteUser(userId)
  \/ \E userId \in UserIds : SessionCreateCheck(2, userId, <<1>>, FALSE)
  \/ SessionCreateInsert(2, FALSE)
  \/ \E sessionId \in SessionIds : SessionDestroy(sessionId, FALSE)
  \/ SessionCleanup(FALSE)
  \/ Tick
  \/ Return

SpecOwner == Init /\ [][NextOwner]_vars


\* the database after two createUser calls (a state SpecUsers reaches)
InitTwoUsers ==
  LET a == UserRow(Uuid(1), Prof(<<"g", "1">>, <<"a", "l">>, GoodEmail, GITHUB), 0)
      b == UserRow(Uuid(2), Prof(<<"g", "1">>, <<"a", "l">>, GoodEmail, MICROSOFT), 0)
  IN InitWith([id \in {a.id, b.id} |-> IF id = a.id THEN a ELSE b])

\* sessions of two users are created by two callers at a time and listed
\* while the clock advances
NextList ==
  \/ \E p \in Procs :
       \/ \E userId \in {Uuid(1), Uuid(2)}, d \in {<<>>, <<1>>} :
            SessionCreateCheck(p, userId, d, FALSE)
       \/ SessionCreateInsert(p, FALSE)
  \/ \E userId \in {Uuid(1), Uuid(2)} \cup {Pad(Uuid(1)), <<" ">>}, fail \in BOOLEAN :
       GetUserSessions(userId, fail)
  \/ Tick
  \/ Return

SpecList == InitTwoUsers /\ [][NextList]_vars

\* the sweep running beside two callers that create, validate and extend
\* sessions, with the storage working
NextSweep ==
  \/ \E p \in Procs :
       \/ \E userId \in DOMAIN OneUser, d \in {<<>>, <<1>>} :
            SessionCreateCheck(p, userId, d, FALSE)
       \/ SessionCreateInsert(p, FALSE)
       \/ \E sessionId \in SessionIds, d \in {<<>>, <<1>>} :
            SessionExtendValidate(p, sessionId, d, "none")
       \/ SessionExtendUpdate(p, FALSE)
  \/ \E sessionId \in SessionIds : SessionValidate(sessionId, "none")
  \/ SessionCleanup(FALSE)
  \/ Tick
  \/ Return

SpecSweep == InitOneUser /\ [][NextSweep]_vars


\* the inputs of the routes and of the AuthService calls
Providers == {MICROSOFT, GITHUB}
RequestStates == {Absent, <<>>, <<"a", "b">>} \cup StateTokens

\* logging in: the service is initialized, a browser starts logins and comes
\* back to the callback, one request at a time, while the handlers are also
\* called directly and users are deleted
NextCallback ==
  \/ \E configOk \in BOOLEAN : InitializeOAuth(configOk)
  \/ \E b \in Browsers, provider \in Providers, state \in StateTokens :
       AuthInitiate(b, provider, state)
  \/ \E b \in Browsers, provider \in Providers, code \in {Absent, <<>>, <<"c">>},
        state \in RequestStates :
       \/ \E errorParam \in BOOLEAN :
            CallbackStart(1, b, provider, TRUE, errorParam, code, state, Absent)
       \/ \E sessionState \in RequestStates :
            CallbackStart(1, b, provider, FALSE, FALSE, code, state, sessionState)
  \/ \E outcome \in {"fail", "nopro", "al", "bo", "padded", "noemail"} :
       CallbackExchange(1, outcome)
  \/ CbCreateCheck(1)
  \/ CbCreateInsert(1)
  \/ CbUpdateFind(1)
  \/ CbUpdateWrite(1)
  \/ CbSessionCheck(1)
  \/ CbSessionInsert(1)
  \/ \E userId \in UserIds : DeleteUser(userId)
  \/ Return

SpecCallback == Init /\ [][NextCallback]_vars

\* the state after the first login (a state SpecCallback reaches)
InitLoggedIn ==
  LET session == [id |-> generateSecureSessionId(1), userId |-> Uuid(1),
                  createdAt |-> 0, expiresAt |-> DurationOrDefault(<<>>)]
  IN /\ users = OneUser
     /\ nUid = 1
     /\ sessions = [id \in {session.id} |-> toDatabaseRow(session)]
     /\ nSid = 1
     /\ now = 0
     /\ isInitialized = TRUE
     /\ browser = [b \in Browsers |-> [sessionId |-> session.id, oauthState |-> Absent]]
     /\ pc = [p \in Procs |-> "idle"]
     /\ loc = [p \in Procs |-> Idle]
     /\ ret = NoRet
     /\ tally = [pair \in Pairs |-> [calls |-> 0, ok |-> 0, conflict |-> 0]]

\* a logged-in browser opens the dashboard and logs out, two requests at a
\* time, while validateSession is also called directly, the user is deleted
\* and the clock advances
NextGuard ==
  \/ \E p \in Procs :
       \/ \E b \in Browsers, fail \in {"none", "select", "delete"} :
            \/ VsStart(p, b, TRUE, Absent, fail)
            \/ \E sessionId \in SessionIdInputs : VsStart(p, b, FALSE, sessionId, fail)
       \/ \E fail \in BOOLEAN : VsFindUser(p, fail)
       \/ \E fail \in BOOLEAN : VsDestroy(p, fail)
       \/ \E b \in Browsers, fail \in BOOLEAN : LogoutStart(p, b, fail)
       \/ LogoutFinish(p)
  \/ \E userId \in UserIds : DeleteUser(userId)
  \/ Tick
  \/ Return

SpecGuard == InitLoggedIn /\ [][NextGuard]_vars

\* the orchestrator's operations called directly, before and after
\* initializeOAuth, with the provider rejecting every code and the storage
\* failing at times, while users are deleted
NextGate ==
  \/ \E configOk \in BOOLEAN : InitializeOAuth(configOk)
  \/ \E b \in Browsers, provider \in Providers, code \in {Absent, <<>>, <<"c">>},
        state \in RequestStates, sessionState \in RequestStates :
       CallbackStart(1, b, provider, FALSE, FALSE, code, state, sessionState)
  \/ CallbackExchange(1, "fail")
  \/ \E userId \in UserIds \cup {<<" ">> \o Uuid(1), <<" ">>, Absent},
        fail \in BOOLEAN :
       AuthCreateSessionCheck(1, userId, fail)
  \/ \E fail \in BOOLEAN : AuthCreateSessionInsert(1, fail)
  \/ \E sessionId \in SessionIdInputs, fail \in BOOLEAN :
       AuthDestroySession(sessionId, fail)
  \/ \E userId \in UserIds : DeleteUser(userId)
  \/ Return

SpecGate == InitOneUser /\ [][NextGate]_vars

\* the state after initializeOAuth (a state SpecCallback reaches)
InitReady ==
  /\ users = <<>>
  /\ nUid = 0
  /\ sessions = <<>>
  /\ nSid = 0
  /\ now = 0
  /\ isInitialized = TRUE
  /\ browser = [b \in Browsers |-> NoContext]
  /\ pc = [p \in Procs |-> "idle"]
  /\ loc = [p \in Procs |-> Idle]
  /\ ret = NoRet
  /\ tally = [pair \in Pairs |-> [calls |-> 0, ok |-> 0, conflict |-> 0]]

\* the provider sends the browser back: GET <redirect URI>?code=..&state=..;
\* the router runs the callback route whose path matches, and the 404 handler
\* of the application when none does
FollowRedirect(p, b, provider, code, state) ==
  LET path == redirectUri(provider)
  IN IF RoutedTo(path) # {}
       THEN \E q \in RoutedTo(path) :
              CallbackStart(p, b, q, TRUE, FALSE, code, state, Absent)
     ELSE /\ pc[p] = "idle" /\ ret = NoRet
          /\ browser[b].oauthState = state
          /\ ret' = [op |-> "notFound", provider |-> provider, path |-> path,
                     status |-> 404]
          /\ UNCHANGED <<users, sessions, now, isInitialized, browser, pc, loc,
                         tally, nUid, nSid>>

\* a login attempt from the initiation to the provider's redirect, beside
\* requests sent to the callback routes themselves
NextRoute ==
  \/ \E b \in Browsers, provider \in Providers, state \in StateTokens :
       AuthInitiate(b, provider, state)
  \/ \E b \in Browsers, provider \in Providers, state \in StateTokens :
       FollowRedirect(1, b, provider, <<"c">>, state)
  \/ \E b \in Browsers, provider \in Providers, state \in StateTokens :
       CallbackStart(1, b, provider, TRUE, FALSE, <<"c">>, state, Absent)
  \/ \E outcome \in {"fail", "al"} : CallbackExchange(1, outcome)
  \/ CbCreateCheck(1)
  \/ CbCreateInsert(1)
  \/ CbSessionCheck(1)
  \/ CbSessionInsert(1)
  \/ Return

SpecRoute == InitReady /\ [][NextRoute]_vars

\* one account logging in through the GitHub callback handler, two logins at
\* a time, while the clock advances
NextLogin ==
  \/ \E p \in Procs :
       \/ \E b \in Browsers :
            CallbackStart(p, b, GITHUB, FALSE, FALSE, <<"c">>, Absent, Absent)
       \/ \E outcome \in {"fail", "nopro", "al", "bo", "padded", "noemail"} :
            CallbackExchange(p, outcome)
       \/ CbCreateCheck(p)
       \/ CbCreateInsert(p)
       \/ CbUpdateFind(p)
       \/ CbUpdateWrite(p)
  \/ Tick
  \/ Return

SpecLogin == InitReady /\ [][NextLogin]_vars

-----------------------------------------------------------------------------
(* C1 *)

\* C1: for every (provider, provider-id) pair and every interleaving of
\* createUser calls, at most one user row with that pair exists and at most
\* one call succeeded; once the calls made for a pair have all returned,
\* exactly one of them succeeded and every other one failed with status 409.
C1_OneWinnerPerPair ==
  \A pair \in Pairs :
    /\ Cardinality(SelectUserByProvider(pair[2], pair[1])) <= 1
    /\ tally[pair].ok <= 1
    /\ (/\ tally[pair].calls >= 1
        /\ ~\E p \in Procs :
              pc[p] = "createUserInsert" /\ Pair(loc[p].profile) = pair) =>
         /\ tally[pair].ok = 1
         /\ tally[pair].conflict = tally[pair].calls - 1

\* two calls raced past the existence check and the loser got 409 at its INSERT
C1_Witness ==
  /\ ret.op = "createUser"
  /\ ret.error.statusCode = 409 /\ ret.at = "insert"
  /\ tally[Pair(ret.profile)].ok = 1

-----------------------------------------------------------------------------
(* C5, C6: SessionManager.validate *)

\* C5: validate(id) on a session whose expiry is in the past returns null and,
\* the storage answering, the row is removed; an id whose row was removed has
\* null returned for it by every later validate.
C5_ExpiredIsRemoved ==
  ret.op = "validate" =>
    /\ ret.wasExpired => ~ret.returned
    /\ (ret.wasExpired /\ ~ret.dbError) => ~ret.rowAfter
    /\ ret.goneBefore => (~ret.returned /\ ~ret.rowAfter)

\* validate met an expired row and deleted it
C5_Witness ==
  /\ ret.op = "validate"
  /\ ret.wasExpired /\ ~ret.dbError
  /\ ~ret.returned /\ ~ret.rowAfter

\* C6: validate never throws; it returns a session only when a row with the
\* trimmed id exists, is not expired and has a non-empty owning user id, and
\* the session is that row's; it returns null for an empty id, an unknown id,
\* an expired row and a storage failure; it leaves a non-expired row unchanged.
C6_ValidateNeverThrows ==
  ret.op = "validate" =>
    /\ ~ret.threw
    /\ ret.returned =>
         (ret.hadRow /\ ~ret.wasExpired /\ ret.hadOwner /\ ret.sameRow)
    /\ (ret.emptyInput \/ ~ret.hadRow \/ ret.wasExpired \/ ret.dbError) =>
         ~ret.returned
    /\ (ret.hadRow /\ ~ret.wasExpired) => ret.rowKept

\* validate was given a padded id and returned the row of the trimmed id
C6_Witness ==
  /\ ret.op = "validate"
  /\ ret.padded /\ ret.returned /\ ret.rowKept

-----------------------------------------------------------------------------
(* C20: the identity of a user *)

\* C20: in every step, a user that exists before and after it has the same
\* id, provider and provider-assigned id; updateUser changes only username,
\* e-mail and updated-at.
C20_IdentityImmutable ==
  [][\A id \in DOMAIN users \cap DOMAIN users' :
       /\ users'[id].id = users[id].id
       /\ users'[id].provider = users[id].provider
       /\ users'[id].provider_id = users[id].provider_id
       /\ users'[id].created_at = users[id].created_at]_vars

-----------------------------------------------------------------------------
(* C17, C18, C19: SessionManager.create, destroy, extendSession *)

\* C17: create fails with VALIDATION_ERROR 400 for an empty or blank user id,
\* and with USER_NOT_FOUND 404 when no user has the id; in both cases no
\* session is returned and the sessions table is as it was.
C17_CreateRejectsEmptyAndUnknownUser ==
  ret.op = "create" =>
    /\ ret.emptyInput =>
         (ret.error = Err("VALIDATION_ERROR", 400) /\ ~ret.created /\ ret.unchanged)
    /\ (~ret.emptyInput /\ ~ret.userSeen) =>
         (ret.error = Err("USER_NOT_FOUND", 404) /\ ~ret.created /\ ret.unchanged)

\* create for a user that does not exist, beside a session that stays
C17_Witness ==
  /\ ret.op = "create"
  /\ ~ret.emptyInput /\ ~ret.userSeen
  /\ ret.error = Err("USER_NOT_FOUND", 404) /\ ret.unchanged /\ ret.others >= 1

\* C18: destroy with a non-empty id, the storage answering, does not fail
\* whether or not the row exists, leaves no row with the trimmed id and every
\* other row as it was, and changes nothing when the row was already gone
\* (so a second destroy leaves the table the first one left); with an empty
\* or blank id it fails with VALIDATION_ERROR 400 and changes nothing.
C18_DestroyIsIdempotent ==
  ret.op = "destroy" =>
    /\ (~ret.emptyInput /\ ~ret.dbFailed) =>
         /\ ret.error = NoError
         /\ ~ret.rowAfter /\ ret.othersKept
         /\ ~ret.hadRow => ret.unchanged
    /\ ret.emptyInput =>
         (ret.error = Err("VALIDATION_ERROR", 400) /\ ret.unchanged)

\* destroy of an id whose row was removed before, beside a row that stays
C18_Witness ==
  /\ ret.op = "destroy"
  /\ ret.goneBefore /\ ~ret.dbFailed
  /\ ret.error = NoError /\ ret.unchanged /\ ret.others >= 1

\* C19: after a successful extendSession the stored expires-at is not earlier
\* than the previous one and the session is still valid; for an unknown or
\* expired id it returns null and no row is created or updated.
C19_ExtendNeverShortens ==
  ret.op = "extendSession" =>
    /\ ret.returned => (ret.newExpiry >= ret.prevExpiry /\ ret.validAfter)
    /\ (~ret.hadRow \/ ret.wasExpired) => (~ret.returned /\ ret.noneWritten)

-----------------------------------------------------------------------------
(* C9, C10: SessionManager.cleanup *)

\* C9: after cleanup returns, no row whose expires-at is earlier than the
\* current time remains, and the returned number is the number of rows removed.
C9_CleanupRemovesAllExpired ==
  (ret.op = "cleanup" /\ ret.error = NoError) =>
    /\ ~ret.expiredLeft
    /\ ret.deletedCount = ret.removed

\* C10: cleanup never removes a session that has not expired, whatever create,
\* validate and extendSession calls are in progress around it.
C10_CleanupKeepsLive ==
  ret.op = "cleanup" => ~ret.sweptLive

\* a sweep removed a row and kept a live one while another call was in progress
C10_Witness ==
  /\ ret.op = "cleanup"
  /\ ret.deletedCount >= 1 /\ ret.liveLeft
  /\ \E q \in Procs : pc[q] # "idle"

-----------------------------------------------------------------------------
(* C2, C7, C8: the guard, validateSession and logout *)

\* C2: requireAuth lets the request through, with the session's user attached,
\* only when the browser context held a session id whose row it found
\* unexpired and whose owning user it found; in every other case it answers
\* with the redirect to the login page and the protected handler is not run.
C2_GuardAdmitsOnlyValid ==
  (ret.op = "validateSession" /\ ret.viaRoute) =>
    /\ ret.response \in {"next", "/"}
    /\ ret.response = "next" =>
         (ret.held /\ ret.rowSeen /\ ret.userSeen /\ ret.userIsOwner)
    /\ ~(ret.held /\ ret.rowSeen /\ ret.userSeen) =>
         (ret.response = "/" /\ ~ret.handlerRun)

\* the guard let a request through
C2_Witness ==
  /\ ret.op = "validateSession" /\ ret.viaRoute
  /\ ret.response = "next" /\ ret.handlerRun /\ ret.userIsOwner

\* C7: validateSession never throws; it returns a user only when it found the
\* session valid and its owning user, and the user is that owner; when the
\* session was valid and the user is gone it returns null and the session row
\* is gone; when a storage call failed it returns null.
C7_ValidateSessionNeverThrows ==
  ret.op = "validateSession" =>
    /\ ~ret.threw
    /\ ret.returned => (ret.rowSeen /\ ret.userSeen /\ ret.userIsOwner)
    /\ ret.orphan => (ret.rowSeen /\ ~ret.userSeen /\ ~ret.returned /\ ~ret.rowAfter)
    /\ ret.dbError => ~ret.returned

\* a direct call found the session valid and its user gone
C7_Witness ==
  /\ ret.op = "validateSession" /\ ~ret.viaRoute
  /\ ret.orphan /\ ~ret.returned /\ ~ret.rowAfter

\* C8: POST /logout answers with the redirect to the login page and leaves the
\* browser context without the session id it held; the storage answering, the
\* row of that id is gone, and validateSession returns null for an id whose
\* row is gone.
C8_LogoutEndsSession ==
  /\ ret.op = "logout" =>
       /\ ret.redirect = "/"
       /\ ~ret.browserHolds
       /\ (ret.held /\ ~ret.dbError) => ~ret.rowAfter
  /\ (ret.op = "validateSession" /\ ret.goneBefore) => ~ret.returned

\* a logout of a browser that held a session id
C8_Witness ==
  /\ ret.op = "logout"
  /\ ret.held /\ ~ret.dbError /\ ~ret.rowAfter /\ ~ret.browserHolds

-----------------------------------------------------------------------------
(* C11, C12: findOrCreateUser *)

\* C11: when a callback handler returns successfully, exactly one user with
\* the profile's (provider, provider-id) exists; when its lookup did not find
\* the pair, that user is the one new user the handler created; when the
\* lookup found the pair, the handler created no user and the user it
\* returns has the id that was found.
C11_UpsertOneUserPerPair ==
  (ret.op = "callback" /\ ret.userDone) =>
    /\ ret.pairCount = 1
    /\ ~ret.found => ret.createdCount = 1
    /\ ret.found => (ret.createdCount = 0 /\ ret.keptId)

\* a second login of a pair the first login created, while another login of
\* the same browser is in progress
C11_Witness ==
  /\ ret.op = "callback" /\ ret.userDone
  /\ ret.found /\ ret.keptId /\ ret.pairCount = 1
  /\ nUid >= 1
  /\ \E q \in Procs : pc[q] # "idle"

\* C12: on a login of an existing user updateUser is called once when the
\* username or e-mail the provider reports differs from the stored one, and
\* not called when both are equal, the row (updated-at included) staying as
\* it was; a field reported with its stored value keeps that value.
C12_UpdateOnlyOnChange ==
  (ret.op = "callback" /\ ret.looked /\ ret.found) =>
    /\ ret.differs => ret.updateCalls = 1
    /\ ~ret.differs =>
         /\ ret.updateCalls = 0
         /\ ret.userDone => (ret.rowSame /\ ~ret.bumped)
    /\ ret.userDone => ret.fieldsKept

\* a login reported a new username: one update, updated-at bumped, the e-mail
\* as stored
C12_Witness ==
  /\ ret.op = "callback" /\ ret.userDone
  /\ ret.found /\ ret.differs /\ ret.updateCalls = 1
  /\ ret.bumped /\ ret.fieldsKept

-----------------------------------------------------------------------------
(* C13, C16: the errors the callback handlers surface *)

\* C13 as stated: a callback handler called with an empty authorization code
\* fails with the callback error carrying status 400.
C13_EmptyCodeIs400 ==
  (ret.op = "callback" /\ ret.called /\ ret.initialized /\ ret.codeEmpty) =>
    ret.error = Err("OAUTH_CALLBACK_ERROR", 400)

\* C13 as amended: a callback handler called on an initialized service with an
\* empty or missing authorization code fails with the callback error carrying
\* status 500, and writes no user and no session.
C13_EmptyCodeIs500 ==
  (ret.op = "callback" /\ ret.called /\ ret.initialized /\ ret.codeEmpty) =>
    /\ ret.error = Err("OAUTH_CALLBACK_ERROR", 500)
    /\ ~ret.looked /\ ~ret.written /\ ~ret.sessionCreated

\* a direct call with an empty code failed
C13_Witness ==
  /\ ret.op = "callback" /\ ~ret.viaRoute /\ ret.called
  /\ ret.initialized /\ ret.codeEmpty
  /\ ret.error = Err("OAUTH_CALLBACK_ERROR", 500)

\* C16 as stated: when the token exchange or the profile fetch fails the
\* handler's error is the token error, status 500; when a User Store lookup,
\* create or update fails it is the profile error, status 500.
C16_TokenAndProfileErrorKinds ==
  (ret.op = "callback" /\ ret.called) =>
    /\ ret.thrown = "exchange" => ret.error = Err("OAUTH_TOKEN_ERROR", 500)
    /\ ret.thrown = "userStore" => ret.error = Err("OAUTH_PROFILE_ERROR", 500)

\* C16 as amended: when the token exchange or the profile fetch fails, or a
\* User Store lookup, create or update fails, the handler's error is the
\* callback error, status 500.
C16_FailuresAreCallbackError500 ==
  (ret.op = "callback" /\ ret.called /\ ret.thrown # "none") =>
    /\ ret.error = Err("OAUTH_CALLBACK_ERROR", 500)
    /\ ~ret.userDone /\ ~ret.sessionCreated

\* a login whose user was deleted before updateUser found it
C16_Witness ==
  /\ ret.op = "callback" /\ ret.called
  /\ ret.thrown = "userStore" /\ ret.found /\ ret.updateCalls = 1
  /\ ret.error = Err("OAUTH_CALLBACK_ERROR", 500)

-----------------------------------------------------------------------------
(* C14, C15: the initialization gate, createSession *)

\* C14: a callback handler, createSession or destroySession called on a
\* service that is not initialized fails with PROVIDER_ERROR, status 500, and
\* changes neither table; a failed initializeOAuth leaves the service
\* uninitialized.
C14_UninitializedFailsEverything ==
  /\ (ret.op = "callback" /\ ret.called /\ ~ret.initialized) =>
       /\ ret.error = Err("OAUTH_PROVIDER_ERROR", 500)
       /\ ~ret.written /\ ~ret.sessionCreated
  /\ (ret.op \in {"createSession", "destroySession"} /\ ~ret.initialized) =>
       /\ ret.error = Err("OAUTH_PROVIDER_ERROR", 500)
       /\ ret.unchanged
  /\ (ret.op = "initializeOAuth" /\ ret.error # NoError) => ~isInitialized

-----------------------------------------------------------------------------
(* C3, C4: the state parameter *)

\* C3: a callback handler called on an initialized service with a non-empty
\* code and with a request state and a stored state that are both present and
\* differ fails with the invalid-state error, status 400.
C3_StateMismatchIs400 ==
  (/\ ret.op = "callback" /\ ret.called
   /\ ret.initialized /\ ~ret.codeEmpty
   /\ ret.bothPresent /\ ~ret.stateMatched) =>
    /\ ret.error = Err("OAUTH_INVALID_STATE", 400)
    /\ ~ret.written /\ ~ret.sessionCreated

\* a direct call with two different states was rejected
C3_Witness ==
  /\ ret.op = "callback" /\ ~ret.viaRoute
  /\ ret.initialized /\ ~ret.codeEmpty /\ ret.bothPresent /\ ~ret.stateMatched
  /\ ret.error = Err("OAUTH_INVALID_STATE", 400)

\* C4: a request to the callback endpoint leads to a user being created or
\* updated and to a session being created only if its state parameter equals
\* the state token stored for the browser context.
C4_SessionOnlyIfStateMatches ==
  (ret.op = "callback" /\ ret.viaRoute /\ ret.sessionCreated) => ret.stateMatched

-----------------------------------------------------------------------------
(* C21: what createUser and updateUser persist *)

\* C21: every stored user row has a non-empty trimmed username, an e-mail of
\* the basic address syntax, a non-empty provider id and a provider that is
\* exactly 'microsoft' or 'github'; a createUser or updateUser that fails
\* validation writes nothing.
C21_PersistedRowsAreValid ==
  /\ \A id \in DOMAIN users :
       /\ users[id].username # <<>> /\ Trim(users[id].username) = users[id].username
       /\ isValidEmail(users[id].email)
       /\ users[id].provider_id # <<>>
       /\ users[id].provider \in {MICROSOFT, GITHUB}
  /\ (ret.op = "createUser" /\ ~ret.valid) =>
       (ret.error = Err("VALIDATION_ERROR", 400) /\ ret.id = Absent)

-----------------------------------------------------------------------------
(* C22, C23: findByProviderId *)

\* C22: findByProviderId fails with VALIDATION_ERROR 400 exactly when an
\* argument is empty after trimming or the trimmed provider is not
\* 'microsoft' or 'github'; otherwise it returns the user stored under the
\* trimmed pair, the provider compared as stored, or none.
C22_FindRejectsUnrecognizedProvider ==
  ret.op = "findByProviderId" =>
    IF \/ Trim(ret.providerId) = <<>> \/ Trim(ret.provider) = <<>>
       \/ Trim(ret.provider) \notin {MICROSOFT, GITHUB}
      THEN ret.error = Err("VALIDATION_ERROR", 400)
    ELSE ret.error = NoError /\ ret.found = {id \in DOMAIN users :
                                  /\ users[id].provider_id = Trim(ret.providerId)
                                  /\ users[id].provider = Trim(ret.provider)}

\* C22, amended: the provider is recognized by its lower-cased spelling; a
\* provider such as 'GitHub' is no validation error and finds only the rows
\* stored with exactly that spelling.
C22_FindRejectsByLowerCasedProvider ==
  ret.op = "findByProviderId" =>
    IF \/ Trim(ret.providerId) = <<>> \/ Trim(ret.provider) = <<>>
       \/ toLowerCase(Trim(ret.provider)) \notin {MICROSOFT, GITHUB}
      THEN ret.error = Err("VALIDATION_ERROR", 400) /\ ret.found = {}
    ELSE ret.error = NoError /\ ret.found = {id \in DOMAIN users :
                                  /\ users[id].provider_id = Trim(ret.providerId)
                                  /\ users[id].provider = Trim(ret.provider)}

\* a lookup of 'GitHub' beside a row stored as 'github' finds nothing
C22_Witness ==
  /\ ret.op = "findByProviderId"
  /\ ret.provider = <<"G", "i", "t", "H", "u", "b">> /\ Trim(ret.providerId) = <<"g", "1">>
  /\ ret.error = NoError /\ ret.found = {}
  /\ \E id \in DOMAIN users :
       users[id].provider = GITHUB /\ users[id].provider_id = <<"g", "1">>

\* C23: after createUser(p) succeeds, findByProviderId(p.id, p.provider)
\* returns the created user, with or without surrounding whitespace in the
\* arguments, and the user's provider id and provider are the supplied
\* values trimmed.
C23_CreateThenFind ==
  /\ (ret.op = "createUser" /\ ret.error = NoError) =>
       /\ users[ret.id].provider_id = Trim(ret.profile.id)
       /\ users[ret.id].provider = Trim(ret.profile.provider)
       /\ \A providerId \in {ret.profile.id, Trim(ret.profile.id), Pad(ret.profile.id)},
             provider \in {ret.profile.provider, Pad(ret.profile.provider)} :
            /\ FindByProviderIdError(providerId, provider) = NoError
            /\ FindByProviderId(providerId, provider) = {ret.id}
  /\ ret.op = "findByProviderId" =>
       \A id \in DOMAIN users :
         (/\ users[id].provider_id = Trim(ret.providerId)
          /\ users[id].provider = Trim(ret.provider)) =>
           (ret.error = NoError /\ ret.found = {id})

\* a user created from a padded id is found by a padded lookup
C23_Witness ==
  /\ ret.op = "findByProviderId"
  /\ ret.providerId = Pad(<<"g", "1">>) /\ ret.provider = Pad(GITHUB)
  /\ ret.found # {}
  /\ tally[<<GITHUB, <<"g", "1">>>>].ok = 1

-----------------------------------------------------------------------------
(* C24: updateUser *)

\* C24: updateUser fails with USER_NOT_FOUND 404 when no user has the id and
\* then writes nothing; a successful call changes only the fields present in
\* the partial profile, to their trimmed values, and sets updated-at to the
\* current time, never earlier than it was; when the merged user is invalid
\* the call fails with VALIDATION_ERROR 400 and the stored row is unchanged.
C24_UpdateUserContract ==
  ret.op = "updateUser" =>
    LET given(field) == ret.profile[field] # Absent
        merged == [username |-> IF given("username") THEN Trim(ret.profile.username)
                                ELSE ret.before.username,
                   email |-> IF given("email") THEN Trim(ret.profile.email)
                             ELSE ret.before.email,
                   provider |-> IF given("provider") THEN Trim(ret.profile.provider)
                                ELSE ret.before.provider,
                   provider_id |-> IF given("id") THEN Trim(ret.profile.id)
                                   ELSE ret.before.provider_id]
    IN /\ (~ret.emptyInput /\ ret.before = NoUser) =>
            (ret.error = Err("USER_NOT_FOUND", 404) /\ ret.unchanged)
       /\ ret.error = Err("USER_NOT_FOUND", 404) => ret.before = NoUser
       /\ ret.error = NoError =>
            /\ ret.before # NoUser /\ ret.after # NoUser
            /\ ret.after.id = ret.before.id
            /\ ret.after.created_at = ret.before.created_at
            /\ ret.after.username = merged.username
            /\ ret.after.email = merged.email
            /\ ret.after.provider = merged.provider
            /\ ret.after.provider_id = merged.provider_id
            /\ ret.after.updated_at = toISOString(now)
            /\ ParseDate(ret.after.updated_at) >= ParseDate(ret.before.updated_at)
            /\ ret.othersKept
       /\ (ret.before # NoUser /\ ~UserValid(merged)) =>
            (ret.error = Err("VALIDATION_ERROR", 400) /\ ret.unchanged)
       /\ ret.error # NoError => ret.unchanged

\* a later update of the username alone, and a rejected update
C24_Witness ==
  /\ ret.op = "updateUser" /\ ret.error = NoError
  /\ ret.profile.username = <<"b", "o">> /\ ret.profile.email = Absent
  /\ ret.before.username = <<"a", "l">> /\ ret.after.username = <<"b", "o">>
  /\ ret.after.email = ret.before.email
  /\ ParseDate(ret.after.updated_at) > ParseDate(ret.before.updated_at)

-----------------------------------------------------------------------------
(* C25: validateOAuthState *)

\* C25: validateOAuthState(a, b) is true exactly when both values are
\* present, non-empty and equal character for character; it is false when
\* either is absent or empty, when the lengths differ and when a character
\* differs.
C25_StateValidIffEqual ==
  ret.op = "validateOAuthState" =>
    LET a == ret.requestState
        b == ret.sessionState
    IN /\ ret.result <=> (a # Absent /\ b # Absent /\ a # <<>> /\ b # <<>> /\ a = b)
       /\ (a \in {Absent, <<>>} \/ b \in {Absent, <<>>}) => ~ret.result
       /\ (a # Absent /\ b # Absent /\ Len(a) # Len(b)) => ~ret.result
       /\ (a # Absent /\ b # Absent /\ Len(a) = Len(b)
             /\ \E i \in 1..Len(a) : a[i] # b[i]) => ~ret.result

\* two states of full length that differ in the last character only
C25_Witness ==
  /\ ret.op = "validateOAuthState" /\ ~ret.result
  /\ ret.requestState # Absent /\ ret.sessionState # Absent
  /\ Len(ret.requestState) = MaxStateLen /\ Len(ret.sessionState) = MaxStateLen
  /\ \A i \in 1..(MaxStateLen - 1) : ret.requestState[i] = ret.sessionState[i]

-----------------------------------------------------------------------------
(* C26: getUserSessions *)

\* C26: getUserSessions(u) returns exactly the sessions of u whose expires-at
\* is later than the current time, most recently created first: no returned
\* session has expired or belongs to another user.
C26_ListsExactlyActive ==
  (ret.op = "getUserSessions" /\ ~ret.failed) =>
    LET result == ret.result
        returned == {result[i].id : i \in DOMAIN result}
    IN /\ \A i \in DOMAIN result :
            /\ result[i].userId = Trim(ret.userId)
            /\ ~isExpired(result[i], now)
       /\ \A x \in DOMAIN sessions :
            (sessions[x].user_id = Trim(ret.userId)
               /\ ParseDate(sessions[x].expires_at) > now) => x \in returned
       /\ \A i, j \in DOMAIN result :
            i < j => result[i].createdAt >= result[j].createdAt

-----------------------------------------------------------------------------
(* C27: sessions of one user beside each other *)

\* C27: the step in which a create finishes removes and changes no session
\* that was stored before it, and every session that was valid before the
\* step is valid after it, also when two creates for the same user overlap.
C27_CreateKeepsOtherSessions ==
  [][(\E p \in Procs : pc[p] = "sessionInsert" /\ pc'[p] = "idle") =>
       \A x \in DOMAIN sessions :
         /\ x \in DOMAIN sessions'
         /\ sessions'[x] = sessions[x]
         /\ isValid(fromDatabaseRow(sessions[x]), now) =>
              isValid(fromDatabaseRow(sessions'[x]), now')]_vars

\* a second session of a user was created and both sessions are valid
C27_Witness ==
  /\ ret.op = "create" /\ ret.created
  /\ \E x, y \in DOMAIN sessions :
       /\ x # y /\ sessions[x].user_id = sessions[y].user_id
       /\ isValid(fromDatabaseRow(sessions[x]), now)
       /\ isValid(fromDatabaseRow(sessions[y]), now)

-----------------------------------------------------------------------------
(* C28: what a successful callback handler returns *)

\* C28: a handler called directly that succeeds returns the normalized
\* profile of the provider account: the provider-assigned id, the username
\* and the e-mail (as stored, trimmed) and the provider tag.
C28_ReturnsProviderProfile ==
  (ret.op = "callback" /\ ~ret.viaRoute /\ ret.userDone /\ ret.error = NoError) =>
    /\ ret.returned.id = ret.profile.id
    /\ ret.returned.username = Trim(ret.profile.username)
    /\ ret.returned.email = Trim(ret.profile.email)
    /\ ret.returned.provider = ret.profile.provider

-----------------------------------------------------------------------------
(* C29: what a callback request leaves in the browser context *)

\* C29: a callback request that fails at any step is answered with a redirect
\* to the login page with an error message and stores no session id in the
\* browser context; a session id is stored only by a request whose user
\* upsert and session creation both succeeded, and it is the id of the
\* session created.
C29_SessionIdOnlyAfterSuccess ==
  [][/\ (ret'.op = "callback" /\ ret' # ret /\ ret'.viaRoute) =>
          IF ret'.sessionCreated
            THEN /\ ret'.userDone /\ ret'.error = NoError
                 /\ ret'.redirect = "/dashboard"
                 /\ \E b \in Browsers :
                      /\ browser'[b].sessionId \in DOMAIN sessions' \ DOMAIN sessions
                      /\ sessions'[browser'[b].sessionId].user_id \in DOMAIN users'
            ELSE /\ ret'.redirect = "/?error"
                 /\ \A b \in Browsers : browser'[b].sessionId = browser[b].sessionId
                 /\ sessions' = sessions
     /\ (\E b \in Browsers : browser'[b].sessionId # browser[b].sessionId) =>
          (ret'.op = "callback" /\ ret'.viaRoute /\ ret'.sessionCreated)]_vars

\* the user was upserted, the session creation failed, the browser has no
\* session id
C29_Witness ==
  /\ ret.op = "callback" /\ ret.viaRoute /\ ret.userDone /\ ~ret.sessionCreated
  /\ ret.redirect = "/?error"
  /\ \A b \in Browsers : browser[b].sessionId = Absent

-----------------------------------------------------------------------------
(* C30: a callback rejected before the exchange *)

\* C30: a handler call with an empty code, or with a request state and a
\* stored state that are both present and differ, is rejected in the step
\* it starts in: the code exchange is never invoked, the User Store is not
\* looked up, and the users and the sessions are as they were.
C30_RejectedBeforeExchange ==
  [][(/\ ret'.op = "callback" /\ ret' # ret
      /\ ret'.called
      /\ ret'.codeEmpty \/ (ret'.bothPresent /\ ~ret'.stateMatched)) =>
       /\ ret'.error # NoError
       /\ ~ret'.exchanged /\ ~ret'.looked /\ ~ret'.written /\ ~ret'.sessionCreated
       /\ \A p \in Procs : pc[p] = "idle" /\ pc'[p] = "idle"
       /\ users' = users /\ sessions' = sessions]_vars

\* an initialized service rejected a code that came with a mismatched state
C30_Witness ==
  /\ ret.op = "callback" /\ ret.called /\ ret.initialized
  /\ ~ret.codeEmpty /\ ret.bothPresent /\ ~ret.stateMatched
  /\ ~ret.exchanged /\ ~ret.looked
  /\ ret.error = Err("OAUTH_INVALID_STATE", 400)

-----------------------------------------------------------------------------
(* C31: the requests of one callback *)

\* C31: a handler call sends at most one request to each provider endpoint,
\* and when the token request fails it sends no profile or e-mail request,
\* fails, and has neither read nor written the User Store.
C31_NoRetryAndTerminalFailure ==
  [][(ret'.op = "callback" /\ ret' # ret /\ ret'.exchanged) =>
       /\ ret'.requests.token = 1
       /\ ret'.requests.profile <= 1 /\ ret'.requests.emails <= 1
       /\ ~ret'.requests.tokenOk =>
            /\ ret'.requests.profile = 0 /\ ret'.requests.emails = 0
            /\ ret'.error # NoError
            /\ ~ret'.looked /\ ~ret'.written /\ ~ret'.userDone
            /\ ~ret'.sessionCreated
            /\ users' = users /\ sessions' = sessions]_vars

\* a token request failed beside a stored user
C31_Witness ==
  /\ ret.op = "callback" /\ ret.exchanged /\ ~ret.requests.tokenOk
  /\ ret.requests.token = 1 /\ ret.requests.profile = 0
  /\ ret.thrown = "exchange" /\ ~ret.looked
  /\ users # <<>>

-----------------------------------------------------------------------------
(* C32: the life of the stored state token *)

\* C32 as stated: once the callback endpoint has answered a callback request
\* of a browser, whether it succeeded or not, the browser context holds no
\* state token.
C32_TokenGoneAfterAnyCallback ==
  [][(ret'.op = "callback" /\ ret' # ret /\ ret'.viaRoute) =>
       browser'[ret'.b].oauthState = Absent]_vars

-----------------------------------------------------------------------------
(* C33: a callback with a state absent *)

\* C33: a handler call of an initialized service with a code, in which the
\* request state or the stored state is absent, goes on to the code
\* exchange and never ends in the invalid-state error.
C33_AbsentStateSkipsValidation ==
  [][(/\ ret'.op = "callback" /\ ret' # ret
      /\ ret'.called /\ ret'.initialized /\ ~ret'.codeEmpty
      /\ ~ret'.bothPresent) =>
       /\ ret'.exchanged
       /\ ret'.requests.token = 1
       /\ ret'.error # Err("OAUTH_INVALID_STATE", 400)]_vars

\* a callback whose request carried a state while the browser context held
\* none went through the exchange and logged in
C33_Witness ==
  /\ ret.op = "callback" /\ ret.called /\ ret.initialized /\ ~ret.codeEmpty
  /\ ~ret.bothPresent /\ ret.exchanged
  /\ ret.viaRoute /\ ret.sessionCreated
  /\ browser[ret.b].oauthState = Absent

-----------------------------------------------------------------------------
(* C34: validate of an expired session beside the sweep *)

\* C34: validate of a session that has expired, or whose expired row is
\* already gone, returns null without failing and leaves no row of it,
\* whether a sweep ran before it or not; a sweep does not fail and brings
\* back no row that validate or an earlier sweep removed.
C34_ValidateCommutesWithSweep ==
  [][/\ (/\ ret'.op = "validate" /\ ret' # ret
          /\ (ret'.wasExpired \/ ret'.goneBefore)) =>
          /\ ~ret'.returned /\ ~ret'.rowAfter
          /\ ~ret'.threw /\ ~ret'.dbError
     /\ (ret'.op = "cleanup" /\ ret' # ret) =>
          /\ ret'.error = NoError
          /\ DOMAIN sessions' \subseteq DOMAIN sessions
          /\ Gone \subseteq Gone']_vars

\* the sweep ran after every expired row had already been removed
C34_Witness ==
  /\ ret.op = "cleanup" /\ ret.error = NoError
  /\ ret.removed = 0 /\ ~ret.expiredLeft
  /\ Gone # {}

-----------------------------------------------------------------------------
(* C35: the expiry of a created session *)

\* C35: for every duration argument, a create that persists a row persists
\* one whose expires-at is later than its created-at, and a create whose
\* computed expiry is not later than its creation time fails with the
\* validation error and persists nothing.
C35_ExpiryAfterCreation ==
  [][\A p \in Procs :
       (pc[p] = "sessionInsert" /\ pc'[p] = "idle") =>
         /\ \A x \in DOMAIN sessions' \ DOMAIN sessions :
              ParseDate(sessions'[x].expires_at) > ParseDate(sessions'[x].created_at)
         /\ ~(DateAfter(now, loc[p].durationMs) > now) =>
              /\ ret'.error = Err("VALIDATION_ERROR", 400)
              /\ sessions' = sessions]_vars

-----------------------------------------------------------------------------
(* C36: the owner of a session *)

-----------------------------------------------------------------------------
(* C37: where the provider sends the browser back *)

\* C37: no request to the redirect URI that an initiation embedded in the
\* authorization URL is answered by the 404 handler: the path is routed to
\* the callback handler of the same provider.
C37_RedirectUriIsRouted ==
  /\ ret.op = "notFound" => ret.path # redirectUri(ret.provider)
  /\ ret.op = "initiate" => RoutedTo(ret.redirectUri) = {ret.provider}

-----------------------------------------------------------------------------
(* C38: the id the handler returns *)

-----------------------------------------------------------------------------
(* C39: two logins of one new account at the same time *)

\* C39 as stated: a handler call whose lookup did not find the account's
\* (provider, provider-id), and whose profile is one createUser accepts,
\* completes successfully and resolves to the single user row of the pair,
\* whatever another call for the same pair does meanwhile.
C39_BothRacersSucceed ==
  [][(/\ ret'.op = "callback" /\ ret' # ret
      /\ ret'.looked /\ ~ret'.found
      /\ UserValid(UserRow(Absent, SanitizeProfile(ret'.profile), now))) =>
       /\ ret'.userDone /\ ret'.error = NoError
       /\ {id \in DOMAIN users' :
              /\ users'[id].provider = ret'.profile.provider
              /\ users'[id].provider_id = sanitizeInput(ret'.profile.id)}
            = {ret'.returned.id}]_vars

\* C39, amended: when a handler call with a profile createUser accepts
\* ends, exactly one user row has the account's (provider, provider-id); a
\* call that completes resolves to that row; a call that does not complete
\* is one whose lookup did not find the pair and whose createUser lost
\* against the other call's: it fails with the handler's error for a User
\* Store failure and writes nothing.
C39_OneRacerSucceeds ==
  [][(/\ ret'.op = "callback" /\ ret' # ret
      /\ ret'.looked
      /\ UserValid(UserRow(Absent, SanitizeProfile(ret'.profile), now))) =>
       LET bound == {id \in DOMAIN users' :
                       /\ users'[id].provider = ret'.profile.provider
                       /\ users'[id].provider_id = sanitizeInput(ret'.profile.id)}
       IN /\ Cardinality(bound) = 1
          /\ IF ret'.userDone
               THEN ret'.error = NoError /\ bound = {ret'.returned.id}
             ELSE /\ ~ret'.found
                  /\ ret'.thrown = "userStore" /\ ret'.error = ProfileFailure
                  /\ ~ret'.written /\ users' = users]_vars

\* the call that lost: it had not found the pair, the other call created
\* the user first, and it failed
C39_Witness ==
  /\ ret.op = "callback" /\ ret.looked /\ ~ret.found /\ ~ret.userDone
  /\ ret.thrown = "userStore"
  /\ UserValid(UserRow(Absent, SanitizeProfile(ret.profile), now))
  /\ \E id \in DOMAIN users :
       /\ users[id].provider = ret.profile.provider
       /\ users[id].provider_id = sanitizeInput(ret.profile.id)

====
